---- MODULE Spec2Model ----
(***************************************************************************)
(* Commission propagation engine of new-launch-sandbox.                    *)
(*                                                                         *)
(* Two resolvers are modelled from the source:                             *)
(*   - calculateNodeAmounts, the free-form resolver of the flowchart       *)
(*     canvas (nodes with parentId links, percent/fixed value lists);      *)
(*   - PayoutTree.nodeAmounts / getDisplayAmount, the template resolver    *)
(*     over the static payoutNodes tree.                                   *)
(*                                                                         *)
(* Numbers.  Every JavaScript number of the canvas is carried as an        *)
(* integer count of grid steps, Grid steps to the unit: a money value n    *)
(* is n / Grid dollars, a percent value n is n / Grid percent.  With       *)
(* Grid = 2 * 100 the model can tell half a cent from a cent.  The         *)
(* arithmetic is exact decimal arithmetic; binary floating point error is  *)
(* not modelled.                                                           *)
(***************************************************************************)
EXTENDS Integers, Sequences, FiniteSets, TLC

VARIABLES
    nodes,        \* canvas: useState<FlowchartNode[]>
    nodeAmounts,  \* canvas: calculateNodeAmounts(nodes) of the last render
    warned,       \* canvas: node ids passed to console.warn by the last render
    rendered,     \* canvas: whether the component has rendered `nodes`
    phase,        \* one run of calculateNodeAmounts, step by step: where it is
    idx,          \* ... the index of the final forEach
    stack,        \* ... the active calls of compute, innermost last
    ret,          \* ... the value the last finished call returned
    developerPayout,          \* PayoutTree: useState(0)
    nodeValues,               \* PayoutTree: useState(buildInitialValues)
    childOrders,              \* PayoutTree: useState(buildInitialOrders)
    activeNodeId,             \* PayoutTree: useState(rootNodeId)
    projectLeadsTotal,        \* PayoutTree: useState({})
    dynamicChildren,          \* PayoutTree: useState({})
    pendingProjectLeadsNode,  \* PayoutTree: useState(null)
    page,                     \* the route shown: "editor", "diagram" or "canvas"
    stored,                   \* localStorage "commissionFlowData", <<>> when unset
    hasInitialized,           \* canvas: useState(false)
    connections,      \* canvas: useState<FlowchartConnection[]>([])
    isConnecting,     \* canvas: useState(false)
    connectionStart,  \* canvas: useState<string | null>(null)
    isNodeModalOpen,  \* canvas: useState(false)
    editingNodeId,    \* canvas: useState<string | null>(null)
    formData,         \* canvas: useState({...}), the fields of the node dialog
    now,              \* the clock Date.now() reads, in ticks
    flowcharts,   \* database: the rows of table flowcharts, in insertion order
    result,       \* FlowchartService: what the last finished call returned or threw
    source,       \* FlowchartService: what a running duplicateFlowchart has read
    dataUpdates,  \* history: per row, the updates that stored new data
    isSaving,     \* useFlowchartSave: useState(false)
    error,        \* useFlowchartSave: useState<string | null>(null)
    requests,     \* useFlowchartSave: the fetch calls that have not settled yet
    currentFlowchartId  \* canvas: useState<string | null>(null)

canvasVars == <<nodes, nodeAmounts, warned, rendered>>
editVars == <<connections, isConnecting, connectionStart, isNodeModalOpen, editingNodeId,
              formData, now>>
stepVars == <<phase, idx, stack, ret>>
treeVars == <<developerPayout, nodeValues, childOrders, activeNodeId, projectLeadsTotal,
              dynamicChildren, pendingProjectLeadsNode>>
pageVars == <<page, stored, hasInitialized>>
serviceVars == <<flowcharts, result, source, dataUpdates>>
hookVars == <<isSaving, error, requests, currentFlowchartId>>
saveVars == <<serviceVars, hookVars>>
vars == <<canvasVars, editVars, stepVars, treeVars, pageVars, saveVars>>

(***************************************************************************)
(* Numbers                                                                 *)
(***************************************************************************)

\* The factor of Math.round(x * 100) / 100: cents to the dollar.
CentScale == 100

\* Grid steps per unit: half a cent, half a hundredth of a percent.
Grid == 2 * CentScale

\* Grid steps per cent.
CentSteps == Grid \div CentScale

\* percent / 100 as a fraction of FracDen, for a percent value in grid steps.
FracDen == 100 * Grid

Dollars(d) == d * Grid
Cents(c) == c * CentSteps
Pct(p) == p * Grid

\* Math.round((parentAmount * k / FracDen + fixed) / Grid * 100) / 100, in grid
\* steps: the nearest whole cent, a half rounding up (Math.round is
\* floor(x + 0.5)).  The product is split so that no intermediate value
\* leaves the 32-bit integers.
RoundCents(parentAmount, k, fixed) ==
    LET W  == CentSteps * FracDen
        qa == parentAmount \div W
        ra == parentAmount % W
        kq == k \div W
        kr == k % W
        fq == fixed \div CentSteps
        fr == fixed % CentSteps
        cents == qa * k + ra * kq + fq
                 + ((ra * kr + fr * FracDen + (W \div 2)) \div W)
    IN  cents * CentSteps

IsWholeCents(a) == a % CentSteps = 0

(***************************************************************************)
(* FlowchartNode                                                           *)
(***************************************************************************)

\* parentId: null.  The code tests only `!node.parentId`.
Null == ""

\* An optional field (`percentValues?: number[]`) is <<>> when undefined and
\* <<v>> when it holds v.
Undefined == <<>>
Some(v) == <<v>>
IsDefined(o) == o # <<>>
Get(o) == o[1]

\* A reduce that stops after the first value.
SumFirst(values) == IF values = <<>> THEN 0 ELSE values[1]

RECURSIVE Sum(_)
\* values.reduce((sum, val) => sum + val, 0)
Sum(values) == IF values = <<>> THEN 0 ELSE Sum(SubSeq(values, 1, Len(values) - 1)) + values[Len(values)]

\* node.percentValues && node.percentValues.length > 0
NonEmptyList(o) == IsDefined(o) /\ Len(Get(o)) > 0

Put(m, k, v) == [x \in (DOMAIN m) \cup {k} |-> IF x = k THEN v ELSE m[x]]

EmptyMap == [x \in {} |-> 0]

\* nodeList.some((n) => n.id === nodeId)
HasNode(nodeList, nodeId) == \E i \in 1..Len(nodeList) : nodeList[i].id = nodeId

\* nodeList.find((n) => n.id === nodeId): the first node of that id
Find(nodeList, nodeId) ==
    nodeList[CHOOSE i \in 1..Len(nodeList) :
                 /\ nodeList[i].id = nodeId
                 /\ \A j \in 1..(i - 1) : nodeList[j].id # nodeId]

(***************************************************************************)
(* calculateNodeAmounts                                                    *)
(***************************************************************************)

\* A first pass that rounds the seed to whole cents.
RootSeedRounded(node) ==
    RoundCents(0, 0,
               IF node.useFixed /\ NonEmptyList(node.fixedValues)
               THEN Get(node.fixedValues)[1]
               ELSE IF node.useFixed /\ IsDefined(node.fixedValue) THEN Get(node.fixedValue)
               ELSE node.amountValue)

\* The value the first pass gives a node without a parent.
RootSeed(node) ==
    IF node.useFixed /\ NonEmptyList(node.fixedValues) THEN Sum(Get(node.fixedValues))
    ELSE IF node.useFixed /\ IsDefined(node.fixedValue) THEN Get(node.fixedValue)
    ELSE IF node.amountType = "fixed" THEN node.amountValue
    ELSE node.amountValue

\* nodeList.forEach: seed every node without a parent.
RECURSIVE SeedRoots(_, _, _)
SeedRoots(nodeList, i, amounts) ==
    IF i > Len(nodeList) THEN amounts
    ELSE SeedRoots(nodeList, i + 1,
                   IF nodeList[i].parentId = Null
                   THEN Put(amounts, nodeList[i].id, RootSeed(nodeList[i]))
                   ELSE amounts)

\* let percentTotal
PercentTotal(node) ==
    IF node.usePercent
    THEN IF NonEmptyList(node.percentValues) THEN Sum(Get(node.percentValues))
         ELSE IF IsDefined(node.percentValue) THEN Get(node.percentValue)
         ELSE 0
    ELSE 0

\* let fixedTotal
FixedTotal(node) ==
    IF node.useFixed
    THEN IF NonEmptyList(node.fixedValues) THEN Sum(Get(node.fixedValues))
         ELSE IF IsDefined(node.fixedValue) THEN Get(node.fixedValue)
         ELSE 0
    ELSE 0

\* `calculated` of a node with a parent, as the pair (k, f) of
\* calculated = parentAmount * k / 100 + f.
Rule(node) ==
    LET percentTotal == PercentTotal(node)
        fixedTotal   == FixedTotal(node)
    IN  IF node.usePercent /\ node.useFixed THEN [k |-> percentTotal, f |-> fixedTotal]
        ELSE IF node.usePercent /\ percentTotal > 0 THEN [k |-> percentTotal, f |-> 0]
        ELSE IF node.useFixed /\ fixedTotal > 0 THEN [k |-> 0, f |-> fixedTotal]
        ELSE IF node.amountType = "percent" THEN [k |-> node.amountValue, f |-> 0]
        ELSE IF node.amountType = "fixed" THEN [k |-> 0, f |-> node.amountValue]
        ELSE IF node.amountType = "formula" /\ node.formula # "" THEN [k |-> 0, f |-> node.amountValue]
        ELSE [k |-> 0, f |-> 0]

\* amounts[nodeId] = Math.round(calculated * 100) / 100
Calculated(node, parentAmount) ==
    RoundCents(parentAmount, Rule(node).k, Rule(node).f)

\* The no-parent branch inside compute.
RootAgain(node) ==
    IF node.useFixed /\ NonEmptyList(node.fixedValues) THEN Sum(Get(node.fixedValues))
    ELSE IF node.useFixed /\ IsDefined(node.fixedValue) THEN Get(node.fixedValue)
    ELSE node.amountValue

\* A check that never finds the node on the path.
OnPathNever(nodeId, path) == FALSE

\* if (path.has(nodeId)): the circular-reference check of compute
OnPath(nodeId, path) == nodeId \in path

\* A lookup that gives an id without a node an amount of one dollar.
MissingNodeAsUnit(amounts, nodeId) ==
    [ret |-> Dollars(1), amounts |-> Put(amounts, nodeId, Dollars(1)), warned |-> {}]

\* if (!node) { amounts[nodeId] = 0; return 0; }
MissingNode(amounts, nodeId) ==
    [ret |-> 0, amounts |-> Put(amounts, nodeId, 0), warned |-> {}]

RECURSIVE compute(_, _, _, _)
\* compute(nodeId, path) over the memo `amounts`; returns the amount, the memo
\* after the call and the ids warned about.
compute(nodeList, amounts, nodeId, path) ==
    IF OnPath(nodeId, path)
    THEN [ret |-> 0, amounts |-> Put(amounts, nodeId, 0), warned |-> {nodeId}]
    ELSE IF nodeId \in DOMAIN amounts
    THEN [ret |-> amounts[nodeId], amounts |-> amounts, warned |-> {}]
    ELSE IF ~HasNode(nodeList, nodeId)
    THEN MissingNode(amounts, nodeId)
    ELSE LET node == Find(nodeList, nodeId) IN
         IF node.parentId = Null
         THEN LET v == RootAgain(node)
              IN  [ret |-> v, amounts |-> Put(amounts, nodeId, v), warned |-> {}]
         ELSE LET r == compute(nodeList, amounts, node.parentId, path \cup {nodeId})
                  a == Calculated(node, r.ret)
              IN  [ret |-> a, amounts |-> Put(r.amounts, nodeId, a), warned |-> r.warned]

\* A forEach that gives up the rest of the list at the first cycle it meets.
RECURSIVE ComputeUntilCycle(_, _, _)
ComputeUntilCycle(nodeList, i, acc) ==
    IF i > Len(nodeList) \/ acc.warned # {} THEN acc
    ELSE LET r == compute(nodeList, acc.amounts, nodeList[i].id, {})
         IN  ComputeUntilCycle(nodeList, i + 1,
                               [amounts |-> r.amounts, warned |-> acc.warned \cup r.warned])

\* nodeList.forEach((node) => compute(node.id))
RECURSIVE ComputeAll(_, _, _)
ComputeAll(nodeList, i, acc) ==
    IF i > Len(nodeList) THEN acc
    ELSE LET r == compute(nodeList, acc.amounts, nodeList[i].id, {})
         IN  ComputeAll(nodeList, i + 1,
                        [amounts |-> r.amounts, warned |-> acc.warned \cup r.warned])

CalculateRun(nodeList) ==
    ComputeAll(nodeList, 1, [amounts |-> SeedRoots(nodeList, 1, EmptyMap), warned |-> {}])

calculateNodeAmounts(nodeList) == CalculateRun(nodeList).amounts

(***************************************************************************)
(* The payout schema: rootNodeId, payoutNodes, parentMap                   *)
(*                                                                         *)
(* A percent of the template tree is a fraction of its parent (0.022 is    *)
(* 2.2%); the model carries it as an integer count of 1 / FracDen.  The    *)
(* two fractions that are not decimal, 1.7 / 2.2 and 0.5 / 2.2, are taken  *)
(* to the nearest count.                                                   *)
(***************************************************************************)

rootNodeId == "developerPayout"

\* A fraction given in thousandths, as a count of 1 / FracDen.
Frac(thousandths) == thousandths * (FracDen \div 1000)

NodeTemplate(defaultPercent, defaultFixed, childIds, kind) ==
    [defaultPercent |-> defaultPercent, defaultFixed |-> defaultFixed,
     childIds |-> childIds, kind |-> kind]

\* Object.keys(payoutNodes), in the order of the literal.
payoutNodeIds ==
    << "developerPayout", "directIcb", "ecb", "icb", "taggerFee", "taggerCombined",
       "taggerIncentive", "taggerKw", "taggerEra", "taggerIncentiveSpecialist",
       "taggerIncentiveEra", "eraAgency", "referralFee", "referralAgent",
       "referralEra", "overrideCommission", "overrideManager", "overrideTeam",
       "projectSpecialist", "newLaunchTeam", "kwHq", "projectDirector",
       "projectLeads", "shirlyn", "elizabeth", "surya", "benjamin" >>

payoutNodes ==
    [id \in {payoutNodeIds[i] : i \in 1..Len(payoutNodeIds)} |->
       CASE id = "developerPayout" ->
              NodeTemplate(Undefined, Undefined,
                           Some(<<"directIcb", "taggerCombined", "eraAgency">>), Undefined)
         [] id = "directIcb" ->
              NodeTemplate(Some(Frac(22)), Undefined, Some(<<"ecb", "icb">>), Undefined)
         [] id = "ecb" ->
              NodeTemplate(Some(15455), Undefined, Undefined, Undefined)
         [] id = "icb" ->
              NodeTemplate(Some(4545), Undefined, Undefined, Undefined)
         [] id = "taggerFee" ->
              NodeTemplate(Some(Frac(3)), Undefined, Some(<<"taggerKw", "taggerEra">>),
                           Undefined)
         [] id = "taggerCombined" ->
              NodeTemplate(Some(0), Undefined, Some(<<"taggerFee", "taggerIncentive">>),
                           Some("group"))
         [] id = "taggerIncentive" ->
              NodeTemplate(Undefined, Some(Dollars(2000)),
                           Some(<<"taggerIncentiveSpecialist", "taggerIncentiveEra">>),
                           Undefined)
         [] id = "taggerKw" ->
              NodeTemplate(Some(Frac(850)), Undefined,
                           Some(<<"projectSpecialist", "newLaunchTeam", "kwHq">>), Undefined)
         [] id = "taggerEra" -> NodeTemplate(Some(Frac(150)), Undefined, Undefined, Undefined)
         [] id = "taggerIncentiveSpecialist" ->
              NodeTemplate(Some(Frac(850)), Undefined, Undefined, Undefined)
         [] id = "taggerIncentiveEra" ->
              NodeTemplate(Some(Frac(150)), Undefined, Undefined, Undefined)
         [] id = "eraAgency" -> NodeTemplate(Some(Frac(5)), Undefined, Undefined, Undefined)
         [] id = "referralFee" ->
              NodeTemplate(Some(0), Undefined, Some(<<"referralAgent", "referralEra">>),
                           Undefined)
         [] id = "referralAgent" -> NodeTemplate(Some(Frac(700)), Undefined, Undefined, Undefined)
         [] id = "referralEra" -> NodeTemplate(Some(Frac(300)), Undefined, Undefined, Undefined)
         [] id = "overrideCommission" ->
              NodeTemplate(Some(0), Undefined, Some(<<"overrideManager", "overrideTeam">>),
                           Undefined)
         [] id = "overrideManager" -> NodeTemplate(Some(Frac(600)), Undefined, Undefined, Undefined)
         [] id = "overrideTeam" -> NodeTemplate(Some(Frac(400)), Undefined, Undefined, Undefined)
         [] id = "projectSpecialist" ->
              NodeTemplate(Some(Frac(650)), Undefined, Undefined, Undefined)
         [] id = "newLaunchTeam" ->
              NodeTemplate(Some(Frac(200)), Undefined,
                           Some(<<"projectDirector", "projectLeads">>), Undefined)
         [] id = "kwHq" -> NodeTemplate(Some(Frac(150)), Undefined, Undefined, Undefined)
         [] id = "projectDirector" -> NodeTemplate(Some(Frac(500)), Undefined, Undefined, Undefined)
         [] id = "projectLeads" ->
              NodeTemplate(Some(Frac(500)), Undefined,
                           Some(<<"shirlyn", "elizabeth", "surya", "benjamin">>), Undefined)
         [] OTHER -> NodeTemplate(Some(Frac(250)), Undefined, Undefined, Undefined)]

\* payoutNodes[nodeId] is defined
HasTemplate(nodeId) == nodeId \in DOMAIN payoutNodes

\* template.childIds ?? []
ChildIdsOf(nodeId) ==
    IF HasTemplate(nodeId) /\ IsDefined(payoutNodes[nodeId].childIds)
    THEN Get(payoutNodes[nodeId].childIds)
    ELSE <<>>

\* node.childIds?.forEach((childId) => { map[childId] = node.id })
RECURSIVE SetParent(_, _, _, _)
SetParent(map, id, childIds, j) ==
    IF j > Len(childIds) THEN map
    ELSE SetParent(Put(map, childIds[j], id), id, childIds, j + 1)

RECURSIVE ParentsFrom(_, _)
ParentsFrom(map, i) ==
    IF i > Len(payoutNodeIds) THEN map
    ELSE ParentsFrom(SetParent(map, payoutNodeIds[i], ChildIdsOf(payoutNodeIds[i]), 1), i + 1)

buildParentMap == ParentsFrom(Put(EmptyMap, rootNodeId, Null), 1)

parentMap == buildParentMap

\* parentMap[nodeId], undefined read as null: the code tests `!parentId`
ParentOf(nodeId) == IF nodeId \in DOMAIN parentMap THEN parentMap[nodeId] ELSE Null

(***************************************************************************)
(* The template resolver: nodeAmounts and getDisplayAmount                 *)
(***************************************************************************)

\* s.startsWith(prefix)
StartsWith(s, prefix) == Len(s) >= Len(prefix) /\ SubSeq(s, 1, Len(prefix)) = prefix

\* nodeId.startsWith("projectLeads_lead_")
IsDynamicChild(nodeId) == StartsWith(nodeId, "projectLeads_lead_")

\* `${pendingProjectLeadsNode}_lead_${i}`
LeadId(parentId, i) == parentId \o "_lead_" \o ToString(i)

\* const { percent = 0, fixed = 0 } = nodeValues[nodeId] ?? {}
ValueOf(values, nodeId) ==
    IF nodeId \in DOMAIN values THEN values[nodeId] ELSE [percent |-> 0, fixed |-> 0]

\* buildInitialValues()
buildInitialValues ==
    [id \in DOMAIN payoutNodes |->
       [percent |-> IF IsDefined(payoutNodes[id].defaultPercent)
                    THEN Get(payoutNodes[id].defaultPercent) ELSE 0,
        fixed   |-> IF IsDefined(payoutNodes[id].defaultFixed)
                    THEN Get(payoutNodes[id].defaultFixed) ELSE 0]]

\* buildInitialOrders(): the child list of every node that has one
buildInitialOrders ==
    [id \in {n \in DOMAIN payoutNodes : ChildIdsOf(n) # <<>>} |-> ChildIdsOf(id)]

\* The state of PayoutTree when it mounts.
InitTree ==
    /\ developerPayout = 0
    /\ nodeValues = buildInitialValues
    /\ childOrders = buildInitialOrders
    /\ activeNodeId = rootNodeId
    /\ projectLeadsTotal = EmptyMap
    /\ dynamicChildren = EmptyMap
    /\ pendingProjectLeadsNode = Null

\* A leaf amount that follows the parent's amount.
dynamicChildAmountLive(parentAmount, fixed) == RoundCents(parentAmount, FracDen, fixed)

\* The amount of a dynamic child: Math.round(fixed * 100) / 100.  The parent's
\* amount is computed before it and not read.
dynamicChildAmount(parentAmount, fixed) == RoundCents(0, 0, fixed)

RECURSIVE treeCompute(_, _, _, _, _)
\* compute(nodeId) of the useMemo of nodeAmounts, over the memo `amounts`.
\* viaParent: PayoutTree resolves "projectLeads" before a dynamic child; the
\* diagram and the canvas import do not.
treeCompute(payout, values, amounts, nodeId, viaParent) ==
    IF nodeId \in DOMAIN amounts THEN [ret |-> amounts[nodeId], amounts |-> amounts]
    ELSE IF IsDynamicChild(nodeId)
    THEN LET parent == IF viaParent
                       THEN treeCompute(payout, values, amounts, "projectLeads", viaParent)
                       ELSE [ret |-> 0, amounts |-> amounts]
             amount == dynamicChildAmount(parent.ret, ValueOf(values, nodeId).fixed)
         IN  [ret |-> amount, amounts |-> Put(parent.amounts, nodeId, amount)]
    ELSE IF ParentOf(nodeId) = Null
    THEN [ret |-> 0, amounts |-> Put(amounts, nodeId, 0)]
    ELSE LET parentId == ParentOf(nodeId)
             r == treeCompute(payout, values, amounts, parentId, viaParent)
             v == ValueOf(values, nodeId)
             amount == IF nodeId = "taggerFee" /\ parentId = "taggerCombined"
                       THEN RoundCents(payout, v.percent, v.fixed)
                       ELSE RoundCents(r.ret, v.percent, v.fixed)
         IN  [ret |-> amount, amounts |-> Put(r.amounts, nodeId, amount)]

\* ids.forEach(compute)
RECURSIVE treeComputeEach(_, _, _, _, _, _)
treeComputeEach(payout, values, amounts, ids, i, viaParent) ==
    IF i > Len(ids) THEN amounts
    ELSE treeComputeEach(payout, values,
                         treeCompute(payout, values, amounts, ids[i], viaParent).amounts,
                         ids, i + 1, viaParent)

\* Object.keys(dynamicChildren).forEach((parentId) => dynamicChildren[parentId].forEach(compute))
RECURSIVE treeComputeDynamic(_, _, _, _, _, _)
treeComputeDynamic(payout, values, amounts, children, keys, viaParent) ==
    IF keys = {} THEN amounts
    ELSE LET parentId == CHOOSE k \in keys : TRUE
         IN  treeComputeDynamic(payout, values,
                                treeComputeEach(payout, values, amounts,
                                                children[parentId], 1, viaParent),
                                children, keys \ {parentId}, viaParent)

\* The amounts a template resolver returns.
TemplateAmounts(payout, values, children, viaParent) ==
    treeComputeDynamic(payout, values,
                       treeComputeEach(payout, values, Put(EmptyMap, rootNodeId, payout),
                                       payoutNodeIds, 1, viaParent),
                       children, DOMAIN children, viaParent)

\* PayoutTree: const nodeAmounts = useMemo(...)
treeNodeAmounts == TemplateAmounts(developerPayout, nodeValues, dynamicChildren, TRUE)

\* ids.reduce((sum, childId) => sum + (nodeAmounts[childId] ?? 0), 0)
RECURSIVE SumAmounts(_, _)
SumAmounts(ids, amounts) ==
    IF ids = <<>> THEN 0
    ELSE SumAmounts(SubSeq(ids, 1, Len(ids) - 1), amounts)
         + (IF ids[Len(ids)] \in DOMAIN amounts THEN amounts[ids[Len(ids)]] ELSE 0)

\* template?.kind === "group"
IsGroup(nodeId) == HasTemplate(nodeId) /\ payoutNodes[nodeId].kind = Some("group")

\* A display amount that reads the node's own amount, group or not.
getDisplayAmountOwn(amounts, payout, nodeId) ==
    IF nodeId \in DOMAIN amounts THEN amounts[nodeId]
    ELSE IF nodeId = rootNodeId THEN payout
    ELSE 0

\* PayoutTree.getDisplayAmount over a map of amounts
getDisplayAmount(amounts, payout, nodeId) ==
    IF IsGroup(nodeId) THEN SumAmounts(ChildIdsOf(nodeId), amounts)
    ELSE IF nodeId \in DOMAIN amounts THEN amounts[nodeId]
    ELSE IF nodeId = rootNodeId THEN payout
    ELSE 0

\* CommissionFlowDiagram.getDisplayAmount over a map of amounts
diagramDisplayAmount(amounts, payout, children, nodeId) ==
    IF IsGroup(nodeId) THEN SumAmounts(ChildIdsOf(nodeId), amounts)
    ELSE IF nodeId \in DOMAIN children THEN SumAmounts(children[nodeId], amounts)
    ELSE IF nodeId \in DOMAIN amounts THEN amounts[nodeId]
    ELSE IF nodeId = rootNodeId THEN payout
    ELSE 0

(***************************************************************************)
(* Node lists the canvas can hold                                          *)
(***************************************************************************)

NodeIds == {"A", "B", "C"}

\* A parentId that names no node of the list (the parent was deleted, or the
\* list was loaded from a saved document).
Ghost == "ghost"

ParentIds == NodeIds \cup {Null, Ghost}

NodeOrder == <<"A", "B", "C">>

RuleOf(up, uf, pv, fv, lp, lf, at, av, fo) ==
    [usePercent |-> up, useFixed |-> uf, percentValues |-> pv, fixedValues |-> fv,
     percentValue |-> lp, fixedValue |-> lf, amountType |-> at, amountValue |-> av,
     formula |-> fo]

\* The rule fields of a node, by the way the canvas comes to hold them.
CanvasRules ==
    { \* imported child with percent 0.5 (amountValue = percent * 100)
      RuleOf(TRUE, FALSE, Some(<<Pct(50)>>), Undefined, Undefined, Undefined,
             "percent", Pct(50), ""),
      \* three percentages entered in the dialog of a new node
      RuleOf(TRUE, FALSE, Some(<<Pct(5), Pct(5), Pct(5) + 1>>), Undefined, Undefined,
             Undefined, "percent", 0, ""),
      \* the imported 50% child edited to 5% and -5%
      RuleOf(TRUE, FALSE, Some(<<Pct(5), Pct(-5)>>), Undefined, Undefined, Undefined,
             "percent", Pct(50), ""),
      \* a new node with -10%
      RuleOf(TRUE, FALSE, Some(<<Pct(-10)>>), Undefined, Undefined, Undefined,
             "percent", 0, ""),
      \* imported child with fixed 75.005
      RuleOf(FALSE, TRUE, Undefined, Some(<<Dollars(75) + 1>>), Undefined, Undefined,
             "fixed", Dollars(75) + 1, ""),
      \* the imported fixed child edited to 50, -70.005 and 0.005
      RuleOf(FALSE, TRUE, Undefined, Some(<<Dollars(50), 0 - (Dollars(70) + 1), 1>>),
             Undefined, Undefined, "fixed", Dollars(75) + 1, ""),
      \* a new node with 10% and 50.005
      RuleOf(TRUE, TRUE, Some(<<Pct(10)>>), Some(<<Dollars(50) + 1>>), Undefined,
             Undefined, "fixed", 0, ""),
      \* the imported root: legacy fixedValue = developerPayout = 1000.01
      RuleOf(FALSE, TRUE, Undefined, Undefined, Undefined, Some(Dollars(1000) + 2),
             "fixed", Dollars(1000) + 2, ""),
      \* a saved node in the old format: formula type, no flags
      RuleOf(FALSE, FALSE, Undefined, Undefined, Some(Pct(20)), Undefined,
             "formula", Dollars(30), "x") }

NodeOf(id, parentId, rule) ==
    [id |-> id, parentId |-> parentId,
     usePercent |-> rule.usePercent, useFixed |-> rule.useFixed,
     percentValues |-> rule.percentValues, fixedValues |-> rule.fixedValues,
     percentValue |-> rule.percentValue, fixedValue |-> rule.fixedValue,
     amountType |-> rule.amountType, amountValue |-> rule.amountValue,
     formula |-> rule.formula]

\* Every list of the nodes A, B, C, each with any parentId and any rule.
NodeLists ==
    { [i \in 1..Len(NodeOrder) |-> NodeOf(NodeOrder[i], ps[i], rs[i])] :
        ps \in [1..Len(NodeOrder) -> ParentIds],
        rs \in [1..Len(NodeOrder) -> CanvasRules] }

(***************************************************************************)
(* Connections and the node dialog of the canvas                           *)
(***************************************************************************)

\* { id: `conn-${from}-${to}`, from, to }
Connection(from, to) == [id |-> "conn-" \o from \o "-" \o to, from |-> from, to |-> to]

\* flowchartNodes.forEach((node) => { if (node.parentId) flowchartConnections.push(...) })
RECURSIVE flowchartConnections(_)
flowchartConnections(nodeList) ==
    IF nodeList = <<>> THEN <<>>
    ELSE (IF Head(nodeList).parentId # Null
          THEN <<Connection(Head(nodeList).parentId, Head(nodeList).id)>>
          ELSE <<>>)
         \o flowchartConnections(Tail(nodeList))

\* The table and the service before any call.
InitService ==
    /\ flowcharts = <<>>
    /\ result = [status |-> "ok", value |-> Undefined]
    /\ source = Undefined
    /\ dataUpdates = <<>>

\* useFlowchartSave and the canvas's currentFlowchartId when the canvas mounts.
InitHook ==
    /\ isSaving = FALSE
    /\ error = Null
    /\ requests = <<>>
    /\ currentFlowchartId = Null

InitSave == InitService /\ InitHook

\* useState of formData: the fields the dialog starts with
InitialFormData ==
    [label |-> "", amountType |-> "percent", amountValue |-> 0, usePercent |-> FALSE,
     useFixed |-> FALSE, percentValues |-> <<>>, fixedValues |-> <<>>, formula |-> "",
     parentId |-> Null]

\* The canvas component when it mounts, apart from nodes and connections.
InitDialog ==
    /\ isConnecting = FALSE
    /\ connectionStart = Null
    /\ isNodeModalOpen = FALSE
    /\ editingNodeId = Null
    /\ formData = InitialFormData
    /\ now = 0

(***************************************************************************)
(* The canvas renders a node list                                          *)
(***************************************************************************)

InitCalc ==
    /\ nodes \in NodeLists
    /\ nodeAmounts = EmptyMap
    /\ warned = {}
    /\ rendered = FALSE
    /\ phase = "idle" /\ idx = 0 /\ stack = <<>> /\ ret = 0
    /\ InitTree
    /\ InitSave
    /\ page = "canvas" /\ stored = Undefined /\ hasInitialized = TRUE
    /\ connections = flowchartConnections(nodes)
    /\ InitDialog

\* const nodeAmounts = calculateNodeAmounts(nodes)
Render ==
    /\ page = "canvas"
    /\ ~rendered
    /\ nodeAmounts' = calculateNodeAmounts(nodes)
    /\ warned' = CalculateRun(nodes).warned
    /\ rendered' = TRUE
    /\ UNCHANGED <<nodes, stepVars, treeVars, saveVars, pageVars, editVars>>

NextCalc == Render

SpecCalc == InitCalc /\ [][NextCalc]_vars

(***************************************************************************)
(* One run of calculateNodeAmounts, one call and one return at a time      *)
(***************************************************************************)

\* The deepest call stack the step model follows.
MaxDepth == 6

StepRules ==
    { RuleOf(TRUE, FALSE, Some(<<Pct(50)>>), Undefined, Undefined, Undefined,
             "percent", Pct(50), ""),
      RuleOf(FALSE, TRUE, Undefined, Some(<<Dollars(75) + 1>>), Undefined, Undefined,
             "fixed", Dollars(75) + 1, "") }

StepLists ==
    { [i \in 1..Len(NodeOrder) |-> NodeOf(NodeOrder[i], ps[i], rs[i])] :
        ps \in [1..Len(NodeOrder) -> ParentIds],
        rs \in [1..Len(NodeOrder) -> StepRules] }

InitStep ==
    /\ nodes \in StepLists
    /\ nodeAmounts = EmptyMap
    /\ warned = {}
    /\ rendered = FALSE
    /\ phase = "seed" /\ idx = 0 /\ stack = <<>> /\ ret = 0
    /\ InitTree
    /\ InitSave
    /\ page = "canvas" /\ stored = Undefined /\ hasInitialized = TRUE
    /\ connections = flowchartConnections(nodes)
    /\ InitDialog

Top == stack[Len(stack)]
Pop == SubSeq(stack, 1, Len(stack) - 1)

\* The first forEach: every node without a parent gets its amount.
StepSeed ==
    /\ phase = "seed"
    /\ nodeAmounts' = SeedRoots(nodes, 1, EmptyMap)
    /\ phase' = "each"
    /\ idx' = 1
    /\ UNCHANGED <<nodes, warned, rendered, stack, ret, treeVars, saveVars, pageVars, editVars>>

\* The final forEach: compute(node.id) for the next node, or return amounts.
StepEach ==
    /\ phase = "each"
    /\ IF idx <= Len(nodes)
       THEN /\ stack' = <<[nodeId |-> nodes[idx].id, path |-> {}]>>
            /\ phase' = "call"
            /\ UNCHANGED rendered
       ELSE /\ phase' = "done"
            /\ rendered' = TRUE
            /\ UNCHANGED stack
    /\ UNCHANGED <<nodes, nodeAmounts, warned, idx, ret, treeVars, saveVars, pageVars, editVars>>

\* compute is entered: it returns at once (a node on the path, a memoized
\* amount, an unknown id, a node without a parent) or calls compute for the
\* parent.
StepCall ==
    /\ phase = "call"
    /\ LET nodeId == Top.nodeId
           path   == Top.path
       IN  IF OnPath(nodeId, path)
           THEN /\ nodeAmounts' = Put(nodeAmounts, nodeId, 0)
                /\ warned' = warned \cup {nodeId}
                /\ ret' = 0
                /\ stack' = Pop
                /\ phase' = "return"
           ELSE IF nodeId \in DOMAIN nodeAmounts
           THEN /\ ret' = nodeAmounts[nodeId]
                /\ stack' = Pop
                /\ phase' = "return"
                /\ UNCHANGED <<nodeAmounts, warned>>
           ELSE IF ~HasNode(nodes, nodeId)
           THEN /\ nodeAmounts' = Put(nodeAmounts, nodeId, 0)
                /\ ret' = 0
                /\ stack' = Pop
                /\ phase' = "return"
                /\ UNCHANGED warned
           ELSE IF Find(nodes, nodeId).parentId = Null
           THEN /\ nodeAmounts' = Put(nodeAmounts, nodeId, RootAgain(Find(nodes, nodeId)))
                /\ ret' = RootAgain(Find(nodes, nodeId))
                /\ stack' = Pop
                /\ phase' = "return"
                /\ UNCHANGED warned
           ELSE /\ Len(stack) < MaxDepth
                /\ stack' = Append(stack, [nodeId |-> Find(nodes, nodeId).parentId,
                                           path |-> path \cup {nodeId}])
                /\ UNCHANGED <<nodeAmounts, warned, ret, phase>>
    /\ UNCHANGED <<nodes, rendered, idx, treeVars, saveVars, pageVars, editVars>>

\* A call of compute has returned: to the forEach, or to the call that asked
\* for its parent's amount, which stores its own amount and returns it.
StepReturn ==
    /\ phase = "return"
    /\ IF stack = <<>>
       THEN /\ idx' = idx + 1
            /\ phase' = "each"
            /\ UNCHANGED <<nodeAmounts, ret, stack>>
       ELSE LET a == Calculated(Find(nodes, Top.nodeId), ret)
            IN  /\ nodeAmounts' = Put(nodeAmounts, Top.nodeId, a)
                /\ ret' = a
                /\ stack' = Pop
                /\ UNCHANGED <<idx, phase>>
    /\ UNCHANGED <<nodes, warned, rendered, treeVars, saveVars, pageVars, editVars>>

NextStep == StepSeed \/ StepEach \/ StepCall \/ StepReturn

\* The run is one synchronous call: once started it keeps running.
SpecStep == InitStep /\ [][NextStep]_vars /\ WF_vars(NextStep)

\* The step model and the function agree on the result.
StepAgreesWithRun ==
    phase = "done" => /\ nodeAmounts = calculateNodeAmounts(nodes)
                      /\ warned = CalculateRun(nodes).warned

(***************************************************************************)
(* The payout editor (PayoutTree), the saved flow and its import           *)
(***************************************************************************)

\* What Number(text) gives for the text of an input: NaN, or a number.
NaN == <<>>
Num(n) == <<n>>

\* Number.isFinite(value)
IsFinite(value) == value # NaN

\* A conversion that reads a text that is not a number as 1.
OrOne(value) == IF IsFinite(value) THEN value[1] ELSE 1

\* Number(text) || 0
OrZero(value) == IF IsFinite(value) THEN value[1] ELSE 0

\* The most leads one expansion asks for.
MaxLeads == 2

\* Texts submitted in the developer payout dialog: not a number, 0, a negative
\* amount, 100000, 1000.005.
PayoutEntries == {NaN, Num(0), Num(0 - Dollars(5)), Num(Dollars(100000)), Num(Dollars(1000) + 1)}

\* Texts submitted in the total leads dialog.
LeadEntries == {NaN, Num(0 - 1)} \cup {Num(n) : n \in 0..MaxLeads}

\* Calls of handleValueChange: <<nodeId, field, value>>.
EditInputs ==
    { <<"taggerCombined", "percent", Num(Frac(500))>>,
      <<"taggerCombined", "fixed", Num(Dollars(100))>>,
      <<"taggerIncentive", "percent", Num(Frac(100))>>,
      <<"projectLeads", "fixed", Num(Dollars(10) + 1)>> }

\* activeChildren, as a set: the cards shown under the active node
activeChildren ==
    IF activeNodeId \in DOMAIN dynamicChildren
    THEN {dynamicChildren[activeNodeId][i] : i \in 1..Len(dynamicChildren[activeNodeId])}
    ELSE IF activeNodeId \in DOMAIN childOrders
    THEN {childOrders[activeNodeId][i] : i \in 1..Len(childOrders[activeNodeId])}
    ELSE {ChildIdsOf(activeNodeId)[i] : i \in 1..Len(ChildIdsOf(activeNodeId))}

\* breadcrumbPath, as a set: the active node and the nodes above it
RECURSIVE ChainFrom(_)
ChainFrom(cursor) == IF cursor = Null THEN {} ELSE {cursor} \cup ChainFrom(ParentOf(cursor))

breadcrumbPath == ChainFrom(activeNodeId)

\* The total leads dialog is closed.  While it is open its backdrop covers
\* the page: only the dialog can be submitted or closed.
NoDialog == pendingProjectLeadsNode = Null

\* handleSubmitModal, with the text of the dialog
handleSubmitModal(text) ==
    LET value == OrZero(text)
    IN  /\ page = "editor" /\ NoDialog
        /\ IF value > 0 THEN developerPayout' = value ELSE UNCHANGED developerPayout
        /\ UNCHANGED <<nodeValues, activeNodeId, projectLeadsTotal, dynamicChildren,
                       pendingProjectLeadsNode, childOrders, canvasVars, editVars, stepVars, saveVars,
                   pageVars>>

\* handleValueChange(nodeId, field, value)
handleValueChange(nodeId, field, value) ==
    /\ page = "editor" /\ NoDialog
    /\ nodeValues' = Put(nodeValues, nodeId,
                         [ValueOf(nodeValues, nodeId) EXCEPT
                            ![field] = IF IsFinite(value) THEN value[1] ELSE 0])
    /\ UNCHANGED <<developerPayout, activeNodeId, projectLeadsTotal, dynamicChildren,
                   pendingProjectLeadsNode, childOrders, canvasVars, editVars, stepVars, saveVars,
                   pageVars>>

\* !existingTotal || existingTotal === 0
NoLeadsYet(nodeId) == nodeId \notin DOMAIN projectLeadsTotal \/ projectLeadsTotal[nodeId] = 0

\* handleInspectNode(nodeId), for a card under the active node
handleInspectNode(nodeId) ==
    /\ page = "editor" /\ NoDialog
    /\ nodeId \in activeChildren
    /\ IF nodeId = "projectLeads" /\ NoLeadsYet(nodeId)
       THEN /\ pendingProjectLeadsNode' = nodeId
            /\ UNCHANGED activeNodeId
       ELSE IF ChildIdsOf(nodeId) # <<>> \/ nodeId \in DOMAIN dynamicChildren
       THEN /\ activeNodeId' = nodeId
            /\ UNCHANGED pendingProjectLeadsNode
       ELSE UNCHANGED <<activeNodeId, pendingProjectLeadsNode>>
    /\ UNCHANGED <<developerPayout, nodeValues, projectLeadsTotal, dynamicChildren,
                   childOrders, canvasVars, editVars, stepVars, saveVars,
                   pageVars>>

\* handleBreadcrumbClick(nodeId), for a node of the breadcrumb trail
handleBreadcrumbClick(nodeId) ==
    /\ page = "editor" /\ NoDialog
    /\ nodeId \in breadcrumbPath
    /\ activeNodeId' = nodeId
    /\ UNCHANGED <<developerPayout, nodeValues, projectLeadsTotal, dynamicChildren,
                   pendingProjectLeadsNode, childOrders, canvasVars, editVars, stepVars, saveVars,
                   pageVars>>

\* handleOpenProjectLeadsModal(nodeId), for a card under the active node
handleOpenProjectLeadsModal(nodeId) ==
    /\ page = "editor" /\ NoDialog
    /\ nodeId \in activeChildren
    /\ pendingProjectLeadsNode' = nodeId
    /\ UNCHANGED <<developerPayout, nodeValues, activeNodeId, projectLeadsTotal,
                   dynamicChildren, childOrders, canvasVars, editVars, stepVars, saveVars,
                   pageVars>>

\* handleCloseProjectLeadsModal, with the dialog open
handleCloseProjectLeadsModal ==
    /\ page = "editor"
    /\ pendingProjectLeadsNode # Null
    /\ pendingProjectLeadsNode' = Null
    /\ UNCHANGED <<developerPayout, nodeValues, activeNodeId, projectLeadsTotal,
                   dynamicChildren, childOrders, canvasVars, editVars, stepVars, saveVars,
                   pageVars>>

Abs(n) == IF n < 0 THEN 0 - n ELSE n

RECURSIVE Gcd(_, _)
Gcd(a, b) == IF b = 0 THEN a ELSE Gcd(b, a % b)

\* A count of 1 / FracDen in lowest terms.
Lowest(p) ==
    LET g == Gcd(FracDen, Abs(p))
    IN  [num |-> p \div g, den |-> FracDen \div g]

\* Math.round(((grandParentAmount * parentPercent + parentFixed)
\*             * projectLeadsPercent / total) * 100) / 100, in grid steps.
\* The fractions are reduced first so that the products stay in 32 bits.
ShareOfLead(grandParentAmount, parentPercent, parentFixed, projectLeadsPercent, total) ==
    LET a == Lowest(parentPercent)
        b == Lowest(projectLeadsPercent)
        n == (grandParentAmount * a.num + parentFixed * a.den) * b.num
        d == CentSteps * a.den * b.den * total
    IN  ((2 * n + d) \div (2 * d)) * CentSteps

\* sharePerLead of handleSubmitProjectLeadsModal, rounded
sharePerLead(nodeId, total) ==
    LET parentId == ParentOf(nodeId)
        parentParentId == ParentOf(parentId)
        grandParentAmount ==
            IF parentParentId # Null
            THEN IF parentParentId \in DOMAIN treeNodeAmounts
                 THEN treeNodeAmounts[parentParentId] ELSE developerPayout
            ELSE developerPayout
        projectLeadsPercent ==
            IF nodeId \in DOMAIN nodeValues THEN nodeValues[nodeId].percent ELSE Frac(500)
    IN  IF parentId # Null
        THEN ShareOfLead(grandParentAmount, ValueOf(nodeValues, parentId).percent,
                         ValueOf(nodeValues, parentId).fixed, projectLeadsPercent, total)
        ELSE ShareOfLead(developerPayout, FracDen, 0, projectLeadsPercent, total)

\* for (let i = 1; i <= total; i++) childIds.push(`${node}_lead_${i}`)
LeadIds(nodeId, total) == [i \in 1..total |-> LeadId(nodeId, i)]

\* childIds.forEach((childId) => { updated[childId] = { percent: 0, fixed } })
RECURSIVE SetLeadValues(_, _, _, _)
SetLeadValues(values, childIds, i, fixed) ==
    IF i > Len(childIds) THEN values
    ELSE SetLeadValues(Put(values, childIds[i], [percent |-> 0, fixed |-> fixed]),
                       childIds, i + 1, fixed)

\* handleSubmitProjectLeadsModal, with the text of the open dialog
handleSubmitProjectLeadsModal(text) ==
    LET total == OrZero(text)
        node  == pendingProjectLeadsNode
    IN  /\ page = "editor"
        /\ pendingProjectLeadsNode # Null
        /\ IF total > 0
           THEN /\ projectLeadsTotal' = Put(projectLeadsTotal, node, total)
                /\ dynamicChildren' = Put(dynamicChildren, node, LeadIds(node, total))
                /\ nodeValues' = SetLeadValues(nodeValues, LeadIds(node, total), 1,
                                               sharePerLead(node, total))
                /\ pendingProjectLeadsNode' = Null
                /\ activeNodeId' = node
           ELSE UNCHANGED <<projectLeadsTotal, dynamicChildren, nodeValues,
                            pendingProjectLeadsNode, activeNodeId>>
        /\ UNCHANGED <<developerPayout, childOrders, canvasVars, editVars, stepVars, saveVars,
                   pageVars>>

\* The object the Save Commission Flow button writes.
commissionFlowData ==
    [developerPayout |-> developerPayout, nodeValues |-> nodeValues,
     projectLeadsTotal |-> projectLeadsTotal, dynamicChildren |-> dynamicChildren]

\* Save Commission Flow: shown while the active node is projectLeads
SaveCommissionFlow ==
    /\ page = "editor" /\ NoDialog
    /\ activeNodeId = "projectLeads"
    /\ stored' = Some(commissionFlowData)
    /\ page' = "diagram"
    /\ UNCHANGED <<hasInitialized, treeVars, saveVars, canvasVars, editVars, stepVars>>

\* The canvas page is opened; it reads the stored flow as initialData.
OpenCanvas ==
    /\ page = "diagram"
    /\ IsDefined(stored)
    /\ page' = "canvas"
    /\ UNCHANGED <<stored, hasInitialized, treeVars, saveVars, canvasVars, editVars,
                   stepVars>>

\* percent * 100, as a percent value of the canvas in grid steps
ImportPercent(percent) == (percent * 100 * Grid) \div FracDen

\* The root node the import pushes.
ImportRoot(data) ==
    NodeOf(rootNodeId, Null,
           RuleOf(FALSE, TRUE, Undefined, Undefined, Undefined,
                  Some(data.developerPayout), "fixed", data.developerPayout, ""))

\* The node the import pushes for a child.
ImportChild(data, childId, parentId) ==
    LET v == ValueOf(data.nodeValues, childId)
        hasPercent == v.percent > 0
        hasFixed == v.fixed > 0
    IN  NodeOf(childId, parentId,
               RuleOf(hasPercent, hasFixed,
                      IF hasPercent THEN Some(<<ImportPercent(v.percent)>>) ELSE Undefined,
                      IF hasFixed THEN Some(<<v.fixed>>) ELSE Undefined,
                      Undefined, Undefined,
                      IF hasPercent THEN "percent" ELSE "fixed",
                      IF hasPercent THEN ImportPercent(v.percent) ELSE v.fixed,
                      ""))

RECURSIVE addChildren(_, _)
RECURSIVE addEachChild(_, _, _, _)
\* addChildren(parentId): the nodes pushed for the subtree under parentId
addChildren(data, parentId) ==
    IF ~HasTemplate(parentId) THEN <<>>
    ELSE addEachChild(data, parentId,
                      IF parentId \in DOMAIN data.dynamicChildren
                      THEN data.dynamicChildren[parentId]
                      ELSE ChildIdsOf(parentId),
                      1)

\* children.forEach((childId, index) => { ... })
addEachChild(data, parentId, children, i) ==
    IF i > Len(children) THEN <<>>
    ELSE (IF ~HasTemplate(children[i]) /\ ~IsDynamicChild(children[i]) THEN <<>>
          ELSE <<ImportChild(data, children[i], parentId)>> \o addChildren(data, children[i]))
         \o addEachChild(data, parentId, children, i + 1)

\* flowchartNodes of the import
flowchartNodes(data) == <<ImportRoot(data)>> \o addChildren(data, rootNodeId)

\* CommissionFlowDiagram: const nodeAmounts = useMemo(...)
diagramNodeAmounts(data) ==
    TemplateAmounts(data.developerPayout, data.nodeValues, data.dynamicChildren, FALSE)

\* calculatedAmounts of the import
calculatedAmounts(data) ==
    TemplateAmounts(data.developerPayout, data.nodeValues, data.dynamicChildren, FALSE)

\* useEffect of the canvas: initialData && nodes.length === 0 && !hasInitialized
ImportInitialData ==
    /\ page = "canvas"
    /\ rendered
    /\ IsDefined(stored) /\ Len(nodes) = 0 /\ ~hasInitialized
    /\ nodes' = flowchartNodes(Get(stored))
    /\ connections' = flowchartConnections(flowchartNodes(Get(stored)))
    /\ hasInitialized' = TRUE
    /\ rendered' = FALSE
    /\ UNCHANGED <<nodeAmounts, warned, page, stored, treeVars, saveVars, stepVars, isConnecting,
                   connectionStart, isNodeModalOpen, editingNodeId, formData, now>>

InitFlow ==
    /\ InitTree
    /\ InitSave
    /\ page = "editor" /\ stored = Undefined /\ hasInitialized = FALSE
    /\ nodes = <<>> /\ nodeAmounts = EmptyMap /\ warned = {} /\ rendered = FALSE
    /\ phase = "idle" /\ idx = 0 /\ stack = <<>> /\ ret = 0
    /\ connections = <<>>
    /\ InitDialog

NextFlow ==
    \/ \E text \in PayoutEntries : handleSubmitModal(text)
    \/ \E e \in EditInputs : handleValueChange(e[1], e[2], e[3])
    \/ \E nodeId \in DOMAIN payoutNodes : handleInspectNode(nodeId)
    \/ \E nodeId \in DOMAIN payoutNodes : handleBreadcrumbClick(nodeId)
    \/ handleOpenProjectLeadsModal("projectLeads")
    \/ handleCloseProjectLeadsModal
    \/ \E text \in LeadEntries : handleSubmitProjectLeadsModal(text)
    \/ SaveCommissionFlow
    \/ OpenCanvas
    \/ ImportInitialData
    \/ Render

SpecFlow == InitFlow /\ [][NextFlow]_vars

(***************************************************************************)
(* Dragging cards in the editor                                            *)
(*                                                                         *)
(* Nothing but activeChildren reads childOrders, and only as the set of    *)
(* the cards shown; the drags are left out of SpecFlow and explored in a   *)
(* specification of their own, over the editor without the canvas.         *)
(***************************************************************************)

\* The parents whose cards the model drags.
DragParents == {rootNodeId, "newLaunchTeam"}

\* array.indexOf(x), counted from 1; 0 when x is not in the array
IndexOf(array, x) ==
    IF \E i \in 1..Len(array) : array[i] = x
    THEN CHOOSE i \in 1..Len(array) : array[i] = x /\ \A j \in 1..(i - 1) : array[j] # x
    ELSE 0

\* An arrayMove that loses the card it moves.
arrayMoveLosing(array, from, to) ==
    SubSeq(array, 1, from - 1) \o SubSeq(array, from + 1, Len(array))

\* arrayMove(array, from, to): the element at `from` is taken out and put
\* in again at `to`
arrayMove(array, from, to) ==
    LET rest == SubSeq(array, 1, from - 1) \o SubSeq(array, from + 1, Len(array))
    IN  SubSeq(rest, 1, to - 1) \o <<array[from]>> \o SubSeq(rest, to, Len(rest))

\* useSortable({ disabled: isDynamicChild }): the cards that can be dragged
\* and dropped on
SortableCards == {c \in activeChildren : ~IsDynamicChild(c)}

\* handleDragEnd, branch "dropped on parent card"
DropOnParentCard(draggedNodeId) ==
    /\ IF draggedNodeId = "projectLeads" /\ NoLeadsYet(draggedNodeId)
       THEN /\ pendingProjectLeadsNode' = draggedNodeId
            /\ UNCHANGED activeNodeId
       ELSE IF ChildIdsOf(draggedNodeId) # <<>> \/ draggedNodeId \in DOMAIN dynamicChildren
       THEN /\ activeNodeId' = draggedNodeId
            /\ UNCHANGED pendingProjectLeadsNode
       ELSE UNCHANGED <<activeNodeId, pendingProjectLeadsNode>>
    /\ UNCHANGED childOrders

\* handleDragEnd, branch "normal reordering within the same parent"
Reorder(draggedNodeId, overNodeId) ==
    /\ IF activeNodeId \in DOMAIN childOrders
       THEN LET currentOrder == childOrders[activeNodeId]
                oldIndex == IndexOf(currentOrder, draggedNodeId)
                newIndex == IndexOf(currentOrder, overNodeId)
            IN  IF oldIndex = 0 \/ newIndex = 0
                THEN UNCHANGED childOrders
                ELSE childOrders' = Put(childOrders, activeNodeId,
                                        arrayMove(currentOrder, oldIndex, newIndex))
       ELSE UNCHANGED childOrders
    /\ UNCHANGED <<activeNodeId, pendingProjectLeadsNode>>

\* handleDragEnd: a card of the active node is dropped on nothing (Null), on
\* the parent card or on a card of the same parent
handleDragEnd(draggedNodeId, overNodeId) ==
    /\ page = "editor" /\ NoDialog
    /\ draggedNodeId \in SortableCards
    /\ overNodeId \in {Null, activeNodeId} \cup SortableCards
    /\ IF overNodeId = Null
       THEN UNCHANGED <<childOrders, activeNodeId, pendingProjectLeadsNode>>
       ELSE IF overNodeId = activeNodeId
       THEN DropOnParentCard(draggedNodeId)
       ELSE Reorder(draggedNodeId, overNodeId)
    /\ UNCHANGED <<developerPayout, nodeValues, projectLeadsTotal, dynamicChildren,
                   canvasVars, editVars, stepVars, saveVars, pageVars>>

\* The cards the model drags and drops on.
DragCards ==
    {Null} \cup DragParents
    \cup {c \in DOMAIN payoutNodes : ParentOf(c) \in DragParents}

\* The payout entered and the value edited while cards are dragged.
OrderPayouts == {Num(Dollars(100000))}
OrderEdits == {<<"taggerCombined", "fixed", Num(Dollars(100))>>}

NextOrder ==
    \/ \E text \in OrderPayouts : handleSubmitModal(text)
    \/ \E e \in OrderEdits : handleValueChange(e[1], e[2], e[3])
    \/ \E nodeId \in DOMAIN payoutNodes : handleInspectNode(nodeId)
    \/ \E nodeId \in DOMAIN payoutNodes : handleBreadcrumbClick(nodeId)
    \/ handleOpenProjectLeadsModal("projectLeads")
    \/ handleCloseProjectLeadsModal
    \/ \E text \in LeadEntries : handleSubmitProjectLeadsModal(text)
    \/ \E draggedNodeId, overNodeId \in DragCards : handleDragEnd(draggedNodeId, overNodeId)

SpecOrder == InitFlow /\ [][NextOrder]_vars

(***************************************************************************)
(* Editing on the canvas: connect, the node dialog, delete, duplicate      *)
(*                                                                         *)
(* A handler and the render that follows its state updates are one step.   *)
(* The label of a node is carried only in the dialog, as "" or a name;     *)
(* every node on the canvas has a name (the import names its nodes, the    *)
(* dialog saves none without).  Date.now() reads the clock.  Filling in    *)
(* the dialog takes time: a box the dialog creates reads a later tick than *)
(* every reading before.  A click on a duplicate button takes none: the    *)
(* clock has advanced by a tick since the last reading or it has not.      *)
(* formData holds the fields the dialog was opened with; what the user     *)
(* types and selects before pressing Save is the input of handleSaveNode,  *)
(* built by the onChange handlers of the fields.  formData is read only    *)
(* while the dialog is open and every way of opening it sets all its       *)
(* fields: the model forgets the fields when the dialog closes.            *)
(***************************************************************************)

\* The most boxes the canvas holds, the last tick the clock reaches in one
\* session, and the most connections the list holds.
MaxNodes == 3
MaxCreated == 1
MaxConnections == 2

\* Values typed into the first fixed field of the dialog.
FixedTyped == {Dollars(75)}

\* A flow as the editor saves it: payout 100000, default rules, one lead.
SampleFlow ==
    [developerPayout |-> Dollars(100000),
     nodeValues |-> SetLeadValues(buildInitialValues, LeadIds("projectLeads", 1), 1,
                                  Dollars(25) + Cents(50)),
     projectLeadsTotal |-> Put(EmptyMap, "projectLeads", 1),
     dynamicChildren |-> Put(EmptyMap, "projectLeads", LeadIds("projectLeads", 1))]

\* The boxes left on the canvas after the others of the import were deleted.
KeptIds == {"developerPayout", "directIcb"}

\* prev.filter((n) => n.id !== nodeId)
WithoutNode(nodeList, nodeId) == SelectSeq(nodeList, LAMBDA n : n.id # nodeId)

\* prev.filter((c) => c.from !== nodeId && c.to !== nodeId)
WithoutEnds(conns, nodeId) == SelectSeq(conns, LAMBDA c : c.from # nodeId /\ c.to # nodeId)

\* prev.filter((c) => c.to !== nodeId)
WithoutInbound(conns, nodeId) == SelectSeq(conns, LAMBDA c : c.to # nodeId)

\* prev.filter((c) => c.id !== connectionId)
WithoutConnection(conns, connectionId) == SelectSeq(conns, LAMBDA c : c.id # connectionId)

\* prev.map((node) => node.id === nodeId ? { ...node, parentId } : node)
WithParent(nodeList, nodeId, parentId) ==
    [i \in 1..Len(nodeList) |->
       IF nodeList[i].id = nodeId THEN [nodeList[i] EXCEPT !.parentId = parentId]
       ELSE nodeList[i]]

\* The imported sample with every box outside KeptIds deleted by handleDeleteNode.
KeptNodes == SelectSeq(flowchartNodes(SampleFlow), LAMBDA n : n.id \in KeptIds)
KeptConnections ==
    SelectSeq(flowchartConnections(flowchartNodes(SampleFlow)),
              LAMBDA c : c.from \in KeptIds /\ c.to \in KeptIds)

\* The ids of the boxes on the canvas.
IdsOf(nodeList) == {nodeList[i].id : i \in 1..Len(nodeList)}

\* The render after a handler's state updates.
Rerender(nodeList) ==
    /\ nodeAmounts' = calculateNodeAmounts(nodeList)
    /\ warned' = CalculateRun(nodeList).warned
    /\ rendered' = TRUE

\* The canvas is shown and the node dialog, which covers it, is closed.
CanvasIdle == page = "canvas" /\ rendered /\ ~isNodeModalOpen

\* The dialog is open.
DialogOpen == page = "canvas" /\ rendered /\ isNodeModalOpen

\* `node-${Date.now()}`
NewNodeId(time) == "node-" \o ToString(time)

\* What Date.now() can read in handleDuplicateNode: the tick of the last
\* reading, or the next one.  The page opens before tick 1.
Readings == {time \in {now, now + 1} : 1 <= time /\ time <= MaxCreated}

\* handleStartConnection(nodeId): the connect handle of a box
handleStartConnection(nodeId) ==
    /\ CanvasIdle
    /\ nodeId \in IdsOf(nodes)
    /\ isConnecting' = TRUE
    /\ connectionStart' = nodeId
    /\ UNCHANGED <<canvasVars, connections, isNodeModalOpen, editingNodeId, formData, now,
                   stepVars, treeVars, saveVars, pageVars>>

\* The Connect button of the toolbar.
ToggleConnecting ==
    /\ CanvasIdle
    /\ isConnecting' = ~isConnecting
    /\ connectionStart' = Null
    /\ UNCHANGED <<canvasVars, connections, isNodeModalOpen, editingNodeId, formData, now,
                   stepVars, treeVars, saveVars, pageVars>>

\* The fields handleEditNode puts in the dialog for a node.
FormOf(node) ==
    LET percentValues == IF IsDefined(node.percentValues) THEN Get(node.percentValues)
                         ELSE IF IsDefined(node.percentValue) THEN <<Get(node.percentValue)>>
                         ELSE <<>>
        fixedValues   == IF IsDefined(node.fixedValues) THEN Get(node.fixedValues)
                         ELSE IF IsDefined(node.fixedValue) THEN <<Get(node.fixedValue)>>
                         ELSE <<>>
    IN  [label |-> "Box", amountType |-> node.amountType, amountValue |-> node.amountValue,
         usePercent |-> node.usePercent, useFixed |-> node.useFixed,
         percentValues |-> IF Len(percentValues) = 0 THEN <<0>> ELSE percentValues,
         fixedValues |-> IF Len(fixedValues) = 0 THEN <<0>> ELSE fixedValues,
         formula |-> node.formula, parentId |-> node.parentId]

\* The state updates of handleEditNode(nodeId).
OpenEditDialog(nodeId) ==
    /\ editingNodeId' = nodeId
    /\ formData' = FormOf(Find(nodes, nodeId))
    /\ isNodeModalOpen' = TRUE
    /\ UNCHANGED <<canvasVars, connections, isConnecting, connectionStart, now>>

\* handleEditNode(nodeId): the edit button of a box
handleEditNode(nodeId) ==
    /\ CanvasIdle
    /\ nodeId \in IdsOf(nodes)
    /\ OpenEditDialog(nodeId)
    /\ UNCHANGED <<stepVars, treeVars, saveVars, pageVars>>

\* handleNodeClick(nodeId): a click on a box
handleNodeClick(nodeId) ==
    /\ CanvasIdle
    /\ nodeId \in IdsOf(nodes)
    /\ IF isConnecting /\ connectionStart # Null /\ connectionStart # nodeId
       THEN /\ Len(connections) < MaxConnections
            /\ connections' = Append(connections, Connection(connectionStart, nodeId))
            /\ nodes' = WithParent(nodes, nodeId, connectionStart)
            /\ isConnecting' = FALSE
            /\ connectionStart' = Null
            /\ Rerender(WithParent(nodes, nodeId, connectionStart))
            /\ UNCHANGED <<isNodeModalOpen, editingNodeId, formData, now>>
       ELSE OpenEditDialog(nodeId)
    /\ UNCHANGED <<stepVars, treeVars, saveVars, pageVars>>

\* handleAddNode: the Add Node button
handleAddNode ==
    /\ CanvasIdle
    /\ Len(nodes) < MaxNodes /\ now < MaxCreated
    /\ editingNodeId' = Null
    /\ formData' = [InitialFormData EXCEPT !.percentValues = <<0>>, !.fixedValues = <<0>>]
    /\ isNodeModalOpen' = TRUE
    /\ UNCHANGED <<canvasVars, connections, isConnecting, connectionStart, now, stepVars,
                   treeVars, saveVars, pageVars>>

\* onChange of the name field
formLabel(form, text) == [form EXCEPT !.label = text]

\* onChange of the first fixed field, with the number typed
formFixedInput(form, numValue) ==
    LET newValues   == [form.fixedValues EXCEPT ![1] = numValue]
        hasAnyValue == \E i \in 1..Len(newValues) : newValues[i] # 0
    IN  [form EXCEPT
           !.fixedValues = newValues,
           !.useFixed = hasAnyValue,
           !.amountType = IF hasAnyValue /\ ~form.usePercent THEN "fixed"
                          ELSE IF form.usePercent /\ hasAnyValue THEN "fixed"
                          ELSE form.amountType]

\* onChange of the parent select
formParent(form, parentId) == [form EXCEPT !.parentId = parentId]

\* A parent select that lists every box, the edited one included.
ParentOptionsUnfiltered == {Null} \cup IdsOf(nodes)

\* The options of the parent select: None, or a box other than the edited one.
ParentOptions == {Null} \cup (IdsOf(nodes) \ {editingNodeId})

\* What the dialog can hold when Save is pressed: the fields it was opened
\* with, a name typed, and then a fixed amount typed or not, a parent chosen
\* or not.
DialogForms ==
    LET named == formLabel(formData, "Box")
        withFixed == {named} \cup {formFixedInput(named, v) : v \in FixedTyped}
    IN  withFixed \cup {formParent(f, parentId) : f \in withFixed, parentId \in ParentOptions}

\* v => v === 0, for every value of a list
AllZero(values) == \A i \in 1..Len(values) : values[i] = 0

\* The Save button of the dialog is not disabled.
SaveEnabled(form) ==
    ~(\/ form.label = ""
      \/ (~form.usePercent /\ ~form.useFixed)
      \/ (form.usePercent /\ (Len(form.percentValues) = 0 \/ AllZero(form.percentValues)))
      \/ (form.useFixed /\ (Len(form.fixedValues) = 0 \/ AllZero(form.fixedValues))))

\* The rule fields handleSaveNode writes from the dialog.
SavedNode(node, form) ==
    [node EXCEPT
       !.amountType = form.amountType,
       !.amountValue = form.amountValue,
       !.usePercent = form.usePercent,
       !.useFixed = form.useFixed,
       !.percentValues = IF form.usePercent /\ Len(form.percentValues) > 0
                         THEN Some(form.percentValues) ELSE Undefined,
       !.fixedValues = IF form.useFixed /\ Len(form.fixedValues) > 0
                       THEN Some(form.fixedValues) ELSE Undefined,
       !.formula = form.formula,
       !.parentId = form.parentId]

\* handleSaveNode, edit branch: the node list
NodesAfterEdit(form) ==
    [i \in 1..Len(nodes) |->
       IF nodes[i].id = editingNodeId THEN SavedNode(nodes[i], form) ELSE nodes[i]]

\* handleSaveNode, edit branch: the connection list
ConnectionsAfterEdit(form) ==
    IF form.parentId # Null
    THEN LET filtered == WithoutInbound(connections, editingNodeId)
             connectionExists ==
                 \E i \in 1..Len(filtered) :
                     filtered[i].from = form.parentId /\ filtered[i].to = editingNodeId
         IN  IF ~connectionExists
             THEN Append(filtered, Connection(form.parentId, editingNodeId))
             ELSE filtered
    ELSE WithoutInbound(connections, editingNodeId)

\* handleSaveNode, create branch: the new node
NewNode(id, form) ==
    SavedNode(NodeOf(id, Null, RuleOf(FALSE, FALSE, Undefined, Undefined, Undefined,
                                      Undefined, "percent", 0, "")),
              form)

\* handleSaveNode, create branch: the connection list
ConnectionsAfterCreate(id, form) ==
    IF form.parentId # Null
    THEN LET connectionExists ==
                 \E i \in 1..Len(connections) :
                     connections[i].from = form.parentId /\ connections[i].to = id
         IN  IF connectionExists THEN connections
             ELSE Append(connections, Connection(form.parentId, id))
    ELSE connections

\* handleSaveNode: the Save button, with the dialog holding `form`
handleSaveNode(form) ==
    /\ DialogOpen
    /\ form \in DialogForms
    /\ SaveEnabled(form)
    /\ IF editingNodeId # Null
       THEN /\ Len(ConnectionsAfterEdit(form)) <= MaxConnections
            /\ nodes' = NodesAfterEdit(form)
            /\ connections' = ConnectionsAfterEdit(form)
            /\ Rerender(NodesAfterEdit(form))
            /\ UNCHANGED now
       ELSE /\ Len(ConnectionsAfterCreate(NewNodeId(now + 1), form)) <= MaxConnections
            /\ now' = now + 1
            /\ nodes' = Append(nodes, NewNode(NewNodeId(now + 1), form))
            /\ connections' = ConnectionsAfterCreate(NewNodeId(now + 1), form)
            /\ Rerender(Append(nodes, NewNode(NewNodeId(now + 1), form)))
    /\ isNodeModalOpen' = FALSE
    /\ editingNodeId' = Null
    /\ formData' = InitialFormData
    /\ UNCHANGED <<isConnecting, connectionStart, stepVars, treeVars, saveVars, pageVars>>

\* The Cancel button of the dialog.
CancelNodeModal ==
    /\ DialogOpen
    /\ isNodeModalOpen' = FALSE
    /\ editingNodeId' = Null
    /\ formData' = InitialFormData
    /\ UNCHANGED <<canvasVars, connections, isConnecting, connectionStart, now, stepVars,
                   treeVars, saveVars, pageVars>>

\* handleDeleteNode(nodeId): the delete button of a box
handleDeleteNode(nodeId) ==
    /\ CanvasIdle
    /\ nodeId \in IdsOf(nodes)
    /\ nodes' = WithoutNode(nodes, nodeId)
    /\ connections' = WithoutEnds(connections, nodeId)
    /\ Rerender(WithoutNode(nodes, nodeId))
    /\ UNCHANGED <<isConnecting, connectionStart, isNodeModalOpen, editingNodeId, formData,
                   now, stepVars, treeVars, saveVars, pageVars>>

\* const duplicatedNode = { ...nodeToDuplicate, id, parentId: null }
duplicatedNode(nodeId, time) ==
    [Find(nodes, nodeId) EXCEPT !.id = NewNodeId(time), !.parentId = Null]

\* handleDuplicateNode(nodeId): the duplicate button of a box
handleDuplicateNode(nodeId) ==
    \E time \in Readings :
        /\ CanvasIdle
        /\ nodeId \in IdsOf(nodes)
        /\ Len(nodes) < MaxNodes
        /\ now' = time
        /\ nodes' = Append(nodes, duplicatedNode(nodeId, time))
        /\ Rerender(Append(nodes, duplicatedNode(nodeId, time)))
        /\ UNCHANGED <<connections, isConnecting, connectionStart, isNodeModalOpen,
                       editingNodeId, formData, stepVars, treeVars, saveVars, pageVars>>

\* connections.find((c) => c.id === connectionId)
FindConnection(conns, connectionId) ==
    conns[CHOOSE i \in 1..Len(conns) :
              /\ conns[i].id = connectionId
              /\ \A j \in 1..(i - 1) : conns[j].id # connectionId]

\* The connections drawn on the canvas: both ends are boxes of the list.
Drawn(conns) ==
    {conns[i].id : i \in {j \in 1..Len(conns) :
                             conns[j].from \in IdsOf(nodes) /\ conns[j].to \in IdsOf(nodes)}}

\* handleDeleteConnection(connectionId): a click on a drawn connection
handleDeleteConnection(connectionId) ==
    /\ CanvasIdle
    /\ connectionId \in Drawn(connections)
    /\ nodes' = WithParent(nodes, FindConnection(connections, connectionId).to, Null)
    /\ connections' = WithoutConnection(connections, connectionId)
    /\ Rerender(WithParent(nodes, FindConnection(connections, connectionId).to, Null))
    /\ UNCHANGED <<isConnecting, connectionStart, isNodeModalOpen, editingNodeId, formData,
                   now, stepVars, treeVars, saveVars, pageVars>>

\* The canvas as the page opens it, empty, or holding what is left of an
\* import.
InitEdit ==
    /\ \/ /\ nodes = <<>> /\ connections = <<>>
          /\ stored = Undefined /\ hasInitialized = FALSE
       \/ /\ nodes = KeptNodes /\ connections = KeptConnections
          /\ stored = Some(SampleFlow) /\ hasInitialized = TRUE
    /\ nodeAmounts = EmptyMap /\ warned = {} /\ rendered = FALSE
    /\ phase = "idle" /\ idx = 0 /\ stack = <<>> /\ ret = 0
    /\ InitTree
    /\ InitSave
    /\ page = "canvas"
    /\ InitDialog

\* Every id a box can have in the editing model.
EditIds == KeptIds \cup {NewNodeId(t) : t \in 1..MaxCreated}

NextEdit ==
    \/ Render
    \/ \E nodeId \in EditIds : handleStartConnection(nodeId)
    \/ ToggleConnecting
    \/ \E nodeId \in EditIds : handleNodeClick(nodeId)
    \/ \E nodeId \in EditIds : handleEditNode(nodeId)
    \/ handleAddNode
    \/ \E form \in DialogForms : handleSaveNode(form)
    \/ CancelNodeModal
    \/ \E nodeId \in EditIds : handleDeleteNode(nodeId)
    \/ \E nodeId \in EditIds : handleDuplicateNode(nodeId)
    \/ \E from, to \in EditIds : handleDeleteConnection(Connection(from, to).id)

SpecEdit == InitEdit /\ [][NextEdit]_vars

(***************************************************************************)
(* The flowchart service and its table                                     *)
(*                                                                         *)
(* FlowchartService runs one SQL statement per call, except               *)
(* duplicateFlowchart, which reads the source and inserts the copy in two  *)
(* statements with an await between them: other calls can run in between.  *)
(* A row's id is gen_random_uuid(), here its insertion number.  Columns    *)
(* name, description, tags, is_template, thumbnail_url and the two         *)
(* timestamps are left out: updateFlowchart treats name, description, tags *)
(* and is_template exactly as it treats is_public.                         *)
(***************************************************************************)

Users == {"u1", "u2"}
\* The documents stored in column data: the one every row is created with and
\* the one every update that carries data stores.
CreatedData == "d1"
UpdatedData == "d2"
MaxRows == 2
MaxVersion == 3
RowIds == 1..MaxRows

\* version INTEGER DEFAULT 1
VersionDefault == 1

\* deleted_at once it is set (NOW())
Deleted == "NOW()"

\* INSERT INTO flowcharts (user_id, ..., data, ..., is_public, ...): the new row
NewRow(userId, data, isPublic) ==
    [id |-> Len(flowcharts) + 1, user_id |-> userId, data |-> data,
     is_public |-> isPublic, deleted_at |-> Null, version |-> VersionDefault]

\* What a call hands back: a returned value, or the message of the Error thrown.
Returned(value) == [status |-> "ok", value |-> value]
Thrown(message) == [status |-> message, value |-> Undefined]

\* SELECT ... WHERE <condition>: the positions of the rows that match
Where(condition(_)) == {i \in 1..Len(flowcharts) : condition(flowcharts[i])}

\* The lookup without its condition on deleted_at.
getFlowchartByIdDeletedToo(id, userId) ==
    LET Visible(row) == /\ row.id = id
                        /\ (row.user_id = userId \/ row.is_public \/ userId = Null)
        rows == Where(Visible)
    IN  IF rows # {} THEN Some(flowcharts[CHOOSE i \in rows : TRUE]) ELSE Undefined

\* getFlowchartById(id, userId): the row, or Undefined for null; userId is Null
\* when the caller passes none
getFlowchartById(id, userId) ==
    LET Visible(row) == /\ row.id = id
                        /\ row.deleted_at = Null
                        /\ (row.user_id = userId \/ row.is_public \/ userId = Null)
        rows == Where(Visible)
    IN  IF rows # {} THEN Some(flowcharts[CHOOSE i \in rows : TRUE]) ELSE Undefined

\* listFlowcharts(filters).flowcharts, ORDER BY created_at DESC: the newest first
ListFilters == [user_id : {Undefined} \cup {Some(u) : u \in Users},
                is_public : {Undefined, Some(TRUE), Some(FALSE)}]
listFlowcharts(filters) ==
    LET Listed(row) == /\ row.deleted_at = Null
                       /\ filters.user_id # Undefined => row.user_id = Get(filters.user_id)
                       /\ filters.is_public # Undefined => row.is_public = Get(filters.is_public)
        rows == Where(Listed)
        Newest[k \in 0..Len(flowcharts)] ==
            IF k = 0 THEN <<>>
            ELSE IF k \in rows THEN <<flowcharts[k]>> \o Newest[k - 1] ELSE Newest[k - 1]
    IN  Newest[Len(flowcharts)]

\* createFlowchart(input)
CreateInputs == [user_id : Users, data : {CreatedData}, is_public : {Undefined, Some(TRUE)}]
createFlowchart(input) ==
    LET row == NewRow(input.user_id, input.data,
                      IF input.is_public # Undefined THEN Get(input.is_public) ELSE FALSE)
    IN  /\ Len(flowcharts) < MaxRows
        /\ flowcharts' = Append(flowcharts, row)
        /\ dataUpdates' = Append(dataUpdates, 0)
        /\ result' = Returned(Some(row))
        /\ UNCHANGED source
        /\ UNCHANGED <<canvasVars, editVars, stepVars, treeVars, pageVars, hookVars>>

\* A call of getFlowchartById from a route
ReadFlowchart(id, userId) ==
    /\ result' = Returned(getFlowchartById(id, userId))
    /\ UNCHANGED <<flowcharts, dataUpdates, source>>
    /\ UNCHANGED <<canvasVars, editVars, stepVars, treeVars, pageVars, hookVars>>

\* A call of listFlowcharts from a route
ReadList(filters) ==
    /\ result' = Returned(listFlowcharts(filters))
    /\ UNCHANGED <<flowcharts, dataUpdates, source>>
    /\ UNCHANGED <<canvasVars, editVars, stepVars, treeVars, pageVars, hookVars>>

\* updateFlowchart(id, userId, input)
UpdateInputs == [data : {Undefined, Some(UpdatedData)},
                 is_public : {Undefined, Some(TRUE), Some(FALSE)}]
NoUpdates(input) == input.data = Undefined /\ input.is_public = Undefined
VersionAfter(row, input) ==
    IF input.data # Undefined THEN row.version + 1 ELSE row.version
UpdatedRow(row, input) ==
    [row EXCEPT !.data = IF input.data # Undefined THEN Get(input.data) ELSE @,
                !.version = VersionAfter(row, input),
                !.is_public = IF input.is_public # Undefined THEN Get(input.is_public) ELSE @]
\* What updateFlowchart(id, userId, input) leaves in the table and hands back.
updateOutcome(id, userId, input) ==
    IF NoUpdates(input)
    THEN LET existing == getFlowchartById(id, userId)
         IN  [flowcharts |-> flowcharts, rows |-> {},
              result |-> IF existing = Undefined THEN Thrown("Flowchart not found")
                         ELSE Returned(existing)]
    ELSE LET Own(row) == row.id = id /\ row.user_id = userId /\ row.deleted_at = Null
             rows == Where(Own)
         IN  [flowcharts |-> [i \in 1..Len(flowcharts) |->
                                IF i \in rows THEN UpdatedRow(flowcharts[i], input)
                                ELSE flowcharts[i]],
              rows |-> rows,
              result |-> IF rows = {} THEN Thrown("Flowchart not found or unauthorized")
                         ELSE Returned(Some(UpdatedRow(flowcharts[CHOOSE i \in rows : TRUE],
                                                       input)))]

updateFlowchart(id, userId, input) ==
    LET outcome == updateOutcome(id, userId, input)
    IN  /\ \A i \in outcome.rows :
               input.data # Undefined => flowcharts[i].version < MaxVersion
        /\ flowcharts' = outcome.flowcharts
        /\ result' = outcome.result
        /\ dataUpdates' = [i \in 1..Len(flowcharts) |->
                             IF i \in outcome.rows /\ input.data # Undefined
                             THEN dataUpdates[i] + 1 ELSE dataUpdates[i]]
        /\ UNCHANGED source
        /\ UNCHANGED <<canvasVars, editVars, stepVars, treeVars, pageVars, hookVars>>

\* What deleteFlowchart(id, userId) leaves in the table and hands back.
SoftDeleted(row) == [row EXCEPT !.deleted_at = Deleted]
deleteOutcome(id, userId) ==
    LET Own(row) == row.id = id /\ row.user_id = userId /\ row.deleted_at = Null
        rows == Where(Own)
    IN  [flowcharts |-> [i \in 1..Len(flowcharts) |->
                           IF i \in rows THEN SoftDeleted(flowcharts[i]) ELSE flowcharts[i]],
         result |-> IF rows = {} THEN Thrown("Flowchart not found or unauthorized")
                    ELSE Returned(Undefined)]

deleteFlowchart(id, userId) ==
    /\ flowcharts' = deleteOutcome(id, userId).flowcharts
    /\ result' = deleteOutcome(id, userId).result
    /\ UNCHANGED <<dataUpdates, source>>
    /\ UNCHANGED <<canvasVars, editVars, stepVars, treeVars, pageVars, hookVars>>

\* The source duplicateFlowchart(sourceId, userId) reads, Undefined when it
\* finds none: first as getFlowchartById sees it, then without the restriction
\* to the user.
duplicateSource(sourceId, userId) ==
    LET Undeleted(row) == row.id = sourceId /\ row.deleted_at = Null
        restricted == getFlowchartById(sourceId, userId)
        rows == Where(Undeleted)
    IN  IF restricted # Undefined THEN restricted
        ELSE IF rows # {} THEN Some(flowcharts[CHOOSE i \in rows : TRUE])
        ELSE Undefined

\* duplicateFlowchart(sourceId, userId), up to the check of the source it read
duplicateFlowchartRead(sourceId, userId) ==
    LET read == duplicateSource(sourceId, userId)
    IN  /\ source = Undefined
        /\ IF read = Undefined
           THEN result' = Thrown("Source flowchart not found") /\ UNCHANGED source
           ELSE source' = Some([row |-> Get(read), userId |-> userId]) /\ UNCHANGED result
        /\ UNCHANGED <<flowcharts, dataUpdates>>
        /\ UNCHANGED <<canvasVars, editVars, stepVars, treeVars, pageVars, hookVars>>

\* duplicateFlowchart, from the INSERT on
duplicateFlowchartInsert ==
    /\ source # Undefined
    /\ Len(flowcharts) < MaxRows
    /\ LET row == NewRow(Get(source).userId, Get(source).row.data, FALSE)
       IN  /\ flowcharts' = Append(flowcharts, row)
           /\ result' = Returned(Some(row))
    /\ dataUpdates' = Append(dataUpdates, 0)
    /\ source' = Undefined
    /\ UNCHANGED <<canvasVars, editVars, stepVars, treeVars, pageVars, hookVars>>


NextService ==
    \/ \E input \in CreateInputs : createFlowchart(input)
    \/ \E id \in RowIds, userId \in Users \cup {Null} : ReadFlowchart(id, userId)
    \/ \E filters \in ListFilters : ReadList(filters)
    \/ \E id \in RowIds, userId \in Users, input \in UpdateInputs :
           updateFlowchart(id, userId, input)
    \/ \E id \in RowIds, userId \in Users : deleteFlowchart(id, userId)
    \/ \E sourceId \in RowIds, userId \in Users : duplicateFlowchartRead(sourceId, userId)
    \/ duplicateFlowchartInsert

SpecService == InitFlow /\ [][NextService]_vars

(***************************************************************************)
(* Saving from the canvas                                                  *)
(*                                                                         *)
(* useFlowchartSave keeps one flag for all its requests: each of its four  *)
(* functions sets isSaving when it starts and clears it in its finally     *)
(* block.  The Save, Update and Duplicate buttons are disabled while the   *)
(* flag is set; the name field and the Delete button of the list are not.  *)
(***************************************************************************)

FlowchartIds == {"f1", "f2"}
MaxRequests == 2

otherThanHook == <<canvasVars, editVars, stepVars, treeVars, pageVars, serviceVars>>

\* setIsSaving(true); setError(null); ... await fetch(...)
StartRequest(op, id) ==
    /\ Len(requests) < MaxRequests
    /\ isSaving' = TRUE
    /\ error' = Null
    /\ requests' = Append(requests, [op |-> op, id |-> id])
    /\ UNCHANGED <<currentFlowchartId, otherThanHook>>

\* handleSaveFlowchart, from the Save button of the save dialog
handleSaveFlowchart ==
    /\ ~isSaving /\ Len(nodes) > 0
    /\ currentFlowchartId = Null
    /\ StartRequest("save", Null)

\* handleSaveClick with a flowchart loaded: handleUpdateFlowchart
handleUpdateFlowchart ==
    /\ ~isSaving /\ Len(nodes) > 0
    /\ currentFlowchartId # Null
    /\ StartRequest("update", currentFlowchartId)

\* handleNameChange(newName) with a name that is not blank: one call per keystroke
handleNameChange ==
    /\ currentFlowchartId # Null
    /\ StartRequest("update", currentFlowchartId)

\* handleDuplicateFlowchart, from the Duplicate button
handleDuplicateFlowchart ==
    /\ ~isSaving
    /\ currentFlowchartId # Null
    /\ StartRequest("duplicate", currentFlowchartId)

\* handleDeleteFlowchart(flowchartId, ...), confirmed, from the list of saved flowcharts
handleDeleteFlowchart(flowchartId) ==
    /\ flowchartId \in FlowchartIds
    /\ StartRequest("delete", flowchartId)

\* handleLoadFlowchart(flowchart)
handleLoadFlowchart(flowchartId) ==
    /\ currentFlowchartId # flowchartId
    /\ currentFlowchartId' = flowchartId
    /\ UNCHANGED <<isSaving, error, requests, otherThanHook>>

\* createNewFlowchart()
createNewFlowchart ==
    /\ currentFlowchartId # Null
    /\ currentFlowchartId' = Null
    /\ UNCHANGED <<isSaving, error, requests, otherThanHook>>

\* The requests other than the one at position i.
Others(i) == SubSeq(requests, 1, i - 1) \o SubSeq(requests, i + 1, Len(requests))

\* The request at position i settles: its function returns or throws, then
\* finally { setIsSaving(false) }; a save or a duplicate that returned sets
\* currentFlowchartId to the id of the record it got.
Settle(i, ok, recordId) ==
    /\ i \in 1..Len(requests)
    /\ requests' = Others(i)
    /\ isSaving' = FALSE
    /\ error' = IF ok THEN error ELSE "Failed"
    /\ currentFlowchartId' = IF ok /\ requests[i].op \in {"save", "duplicate"}
                             THEN recordId ELSE currentFlowchartId
    /\ UNCHANGED otherThanHook

NextHook ==
    \/ handleSaveFlowchart
    \/ handleUpdateFlowchart
    \/ handleNameChange
    \/ handleDuplicateFlowchart
    \/ \E flowchartId \in FlowchartIds : handleDeleteFlowchart(flowchartId)
    \/ \E flowchartId \in FlowchartIds : handleLoadFlowchart(flowchartId)
    \/ createNewFlowchart
    \/ \E i \in 1..MaxRequests, ok \in BOOLEAN, recordId \in FlowchartIds :
           Settle(i, ok, recordId)

SpecHook == InitEdit /\ [][NextHook]_vars


(***************************************************************************)
(* Properties of calculateNodeAmounts                                      *)
(***************************************************************************)

Indices == 1..Len(nodes)

\* The amount the last render resolved for a node id.
Resolved(id) == nodeAmounts[id]

\* a + b + c of a value list, summed from its head.
RECURSIVE Total(_)
Total(values) == IF values = <<>> THEN 0 ELSE Head(values) + Total(Tail(values))

\* The sum of an optional value list; an absent list contributes 0.
ListTotal(o) == IF IsDefined(o) THEN Total(Get(o)) ELSE 0

\* The node keeps its values in the lists, not in the legacy single fields.
ListFormat(node) == ~IsDefined(node.percentValue) /\ ~IsDefined(node.fixedValue)

\* The ancestors of a node, walking parentId up to `fuel` steps.
RECURSIVE AncestorsUpTo(_, _, _)
AncestorsUpTo(nodeList, id, fuel) ==
    IF fuel = 0 \/ ~HasNode(nodeList, id) \/ Find(nodeList, id).parentId = Null
    THEN {}
    ELSE {Find(nodeList, id).parentId}
         \cup AncestorsUpTo(nodeList, Find(nodeList, id).parentId, fuel - 1)

Ancestors(nodeList, id) == AncestorsUpTo(nodeList, id, Len(nodeList) + 1)

\* No node on the way up from id, id included, is its own ancestor.
ChainAcyclic(nodeList, id) ==
    \A a \in Ancestors(nodeList, id) \cup {id} : a \notin Ancestors(nodeList, a)

\* C1: calculateNodeAmounts terminates on every node list, whatever the
\* parentId links are (cycles, a node that is its own parent, parents that
\* name no node): every run reaches the return of the amount map.
C1_Terminates == <>(phase = "done")

\* A run has returned on a list whose three nodes form one parent cycle, and
\* the circular-reference check fired on the way.
C1_Witness ==
    /\ phase = "done"
    /\ nodes[1].parentId = "B" /\ nodes[2].parentId = "C" /\ nodes[3].parentId = "A"
    /\ warned # {}
    /\ DOMAIN nodeAmounts = NodeIds

\* A run has returned on a list with a node that is its own parent and a node
\* whose parent is in no list.
C1_WitnessSelfAndGhost ==
    /\ phase = "done"
    /\ nodes[1].parentId = "A" /\ nodes[2].parentId = Ghost
    /\ "A" \in warned
    /\ Ghost \in DOMAIN nodeAmounts

\* The call stack of compute never holds more calls than the list has nodes,
\* plus one for the call that finds the cycle or the missing node.
DepthBounded == Len(stack) <= Len(nodes) + 1

\* The node carries a percent/fixed rule: a flag is set and the values are in
\* the lists.
HasFlagRule(node) == (node.usePercent \/ node.useFixed) /\ ListFormat(node)

\* C2: when A.parentId = B and B.parentId = A, both A and B resolve to 0,
\* whatever their percent/fixed rules are.
C2_TwoCycleIsZero ==
    rendered =>
        \A a, b \in Indices :
            (/\ a # b
             /\ nodes[a].parentId = nodes[b].id
             /\ nodes[b].parentId = nodes[a].id
             /\ HasFlagRule(nodes[a]) /\ HasFlagRule(nodes[b]))
            => Resolved(nodes[a].id) = 0 /\ Resolved(nodes[b].id) = 0

\* The nodes C5..C7 speak of: the parent is in the list, the way up has no
\* cycle, and the values are in the lists.
PlainChild(i) ==
    /\ nodes[i].parentId # Null
    /\ HasNode(nodes, nodes[i].parentId)
    /\ ChainAcyclic(nodes, nodes[i].id)
    /\ ListFormat(nodes[i])

\* C5: a node with an existing parent resolves to
\* round2(parentAmount * sum(percentValues) / 100) with only usePercent set,
\* to round2(sum(fixedValues)) with only useFixed set, and to
\* round2(parentAmount * sum(percentValues) / 100 + sum(fixedValues)) with both.
C5_RuleFormula ==
    rendered =>
        \A i \in Indices :
            PlainChild(i) =>
                LET n  == nodes[i]
                    pa == Resolved(n.parentId)
                    p  == ListTotal(n.percentValues)
                    f  == ListTotal(n.fixedValues)
                IN  /\ (n.usePercent /\ ~n.useFixed) => Resolved(n.id) = RoundCents(pa, p, 0)
                    /\ (~n.usePercent /\ n.useFixed) => Resolved(n.id) = RoundCents(pa, 0, f)
                    /\ (n.usePercent /\ n.useFixed) => Resolved(n.id) = RoundCents(pa, p, f)

\* C6: a percent sum p <= 0 (or an absent list) on a node with only usePercent
\* set gives round2(parentAmount * p / 100), and a fixed sum f <= 0 on a node
\* with only useFixed set gives round2(f), whatever amountType and amountValue
\* hold.
C6_NonPositiveSumApplied ==
    rendered =>
        \A i \in Indices :
            PlainChild(i) =>
                LET n  == nodes[i]
                    pa == Resolved(n.parentId)
                    p  == ListTotal(n.percentValues)
                    f  == ListTotal(n.fixedValues)
                IN  /\ (n.usePercent /\ ~n.useFixed /\ p <= 0)
                        => Resolved(n.id) = RoundCents(pa, p, 0)
                    /\ (~n.usePercent /\ n.useFixed /\ f <= 0)
                        => Resolved(n.id) = RoundCents(0, 0, f)

\* C7: in a chain root -> child -> grandchild of percent rules p1 and p2 the
\* grandchild is round2(round2(root * p1 / 100) * p2 / 100).
C7_RoundedPerGeneration ==
    rendered =>
        \A c, g \in Indices :
            (/\ PlainChild(c) /\ PlainChild(g)
             /\ nodes[g].parentId = nodes[c].id
             /\ Find(nodes, nodes[c].parentId).parentId = Null
             /\ nodes[c].usePercent /\ ~nodes[c].useFixed
             /\ nodes[g].usePercent /\ ~nodes[g].useFixed)
            => LET root == Resolved(nodes[c].parentId)
                   p1   == ListTotal(nodes[c].percentValues)
                   p2   == ListTotal(nodes[g].percentValues)
               IN  Resolved(nodes[g].id) = RoundCents(RoundCents(root, p1, 0), p2, 0)

\* C8: every amount of the returned map is a whole number of cents.
C8_AllWholeCents ==
    rendered => \A id \in DOMAIN nodeAmounts : IsWholeCents(Resolved(id))

\* The list with node i's percentValues (fixedValues) replaced by the one
\* value that is their sum.
WithPercentSummed(nodeList, i) ==
    [nodeList EXCEPT ![i].percentValues = Some(<<Total(Get(nodeList[i].percentValues))>>)]
WithFixedSummed(nodeList, i) ==
    [nodeList EXCEPT ![i].fixedValues = Some(<<Total(Get(nodeList[i].fixedValues))>>)]

\* C9: a node whose percentValues are [a, b, c] resolves to the same amount
\* as the node with percentValues [a + b + c] under the same parent, and
\* likewise for fixedValues.
C9_MultiValueSummation ==
    rendered =>
        \A i \in Indices :
            /\ NonEmptyList(nodes[i].percentValues)
                => calculateNodeAmounts(WithPercentSummed(nodes, i))[nodes[i].id]
                   = Resolved(nodes[i].id)
            /\ NonEmptyList(nodes[i].fixedValues)
                => calculateNodeAmounts(WithFixedSummed(nodes, i))[nodes[i].id]
                   = Resolved(nodes[i].id)

\* A rendered list where a node with three percentages sits under a parent of
\* a non-zero amount and a node with three fixed values is resolved too.
C9_Witness ==
    /\ rendered
    /\ \E i \in Indices :
          /\ PlainChild(i)
          /\ nodes[i].usePercent
          /\ NonEmptyList(nodes[i].percentValues)
          /\ Len(Get(nodes[i].percentValues)) = 3
          /\ Resolved(nodes[i].parentId) > 0
          /\ Resolved(nodes[i].id) > 0
    /\ \E j \in Indices :
          /\ nodes[j].useFixed
          /\ NonEmptyList(nodes[j].fixedValues)
          /\ Len(Get(nodes[j].fixedValues)) = 3

\* Node i is a child whose parentId names no node of the list.
MissingParent(i) == nodes[i].parentId # Null /\ ~HasNode(nodes, nodes[i].parentId)

\* The list without its i-th node.
Absent(nodeList, i) == SubSeq(nodeList, 1, i - 1) \o SubSeq(nodeList, i + 1, Len(nodeList))

\* C17, as stated.  A child whose parentId names no node resolves as its
\* rule gives for parentAmount = 0, with no warning, and every other node
\* resolves to the same amount as in the list without that child.
C17_MissingParentAnyOther ==
    rendered =>
        \A i \in Indices :
            MissingParent(i) =>
                /\ Resolved(nodes[i].id) = RoundCents(0, Rule(nodes[i]).k, Rule(nodes[i]).f)
                /\ nodes[i].id \notin warned
                /\ \A o \in Indices \ {i} :
                       Resolved(nodes[o].id)
                         = calculateNodeAmounts(Absent(nodes, i))[nodes[o].id]

\* C17, amended.  A child whose parentId names no node resolves as its rule
\* gives for parentAmount = 0, with no warning, and every other node that is
\* not below that child resolves to the same amount as in the list without
\* the child.
C17_MissingParentIsZero ==
    rendered =>
        \A i \in Indices :
            MissingParent(i) =>
                /\ Resolved(nodes[i].id) = RoundCents(0, Rule(nodes[i]).k, Rule(nodes[i]).f)
                /\ nodes[i].id \notin warned
                /\ \A o \in Indices \ {i} :
                       nodes[i].id \notin Ancestors(nodes, nodes[o].id)
                       => Resolved(nodes[o].id)
                            = calculateNodeAmounts(Absent(nodes, i))[nodes[o].id]

\* A rendered list where a child of a missing parent holds a percent and a
\* fixed value and resolves to its fixed part, beside a root and a child of
\* that root with amounts of their own.
C17_Witness ==
    /\ rendered
    /\ \E i, r, c \in Indices :
          /\ MissingParent(i)
          /\ nodes[i].usePercent /\ nodes[i].useFixed
          /\ Resolved(nodes[i].id) > 0
          /\ Resolved(nodes[i].parentId) = 0
          /\ nodes[r].parentId = Null /\ Resolved(nodes[r].id) > 0
          /\ nodes[c].parentId = nodes[r].id /\ Resolved(nodes[c].id) > 0

\* The ids that lie on a parent cycle: each is its own ancestor.
CyclicIds(nodeList) ==
    {nodeList[i].id : i \in {j \in 1..Len(nodeList) :
                                nodeList[j].id \in Ancestors(nodeList, nodeList[j].id)}}

\* The list without the nodes that lie on a cycle.
WithoutCycles(nodeList) ==
    SelectSeq(nodeList, LAMBDA n : n.id \notin CyclicIds(nodeList))

\* The way up from id is free of cycles and ends at a node without parent.
EndsAtRoot(nodeList, id) ==
    /\ ChainAcyclic(nodeList, id)
    /\ \A a \in Ancestors(nodeList, id) : HasNode(nodeList, a)

\* C18: in a list that holds a parent cycle, every node whose own way up is
\* acyclic and ends at a root resolves to the amount it has in the list
\* without the cyclic nodes, and every node of the list has an amount.
C18_CycleLeavesRestAlone ==
    (rendered /\ CyclicIds(nodes) # {}) =>
        /\ \A i \in Indices : nodes[i].id \in DOMAIN nodeAmounts
        /\ \A i \in Indices :
               EndsAtRoot(nodes, nodes[i].id)
               => Resolved(nodes[i].id)
                    = calculateNodeAmounts(WithoutCycles(nodes))[nodes[i].id]

\* A rendered list with a node that is its own parent, listed first, beside
\* a root and a child of that root that both resolve to amounts above 0.
C18_Witness ==
    /\ rendered
    /\ Len(nodes) = 3
    /\ nodes[1].parentId = nodes[1].id
    /\ nodes[1].id \in warned
    /\ \E r, c \in Indices :
          /\ nodes[r].parentId = Null /\ Resolved(nodes[r].id) > 0
          /\ nodes[c].parentId = nodes[r].id /\ Resolved(nodes[c].id) > 0

(***************************************************************************)
(* Properties of the template resolver and of the import                   *)
(***************************************************************************)

\* The template nodes whose parent is g.
ChildrenOf(g) == {c \in DOMAIN payoutNodes : ParentOf(c) = g}

RECURSIVE TotalOver(_, _)
\* The sum of amounts[c] over the ids c of a set.
TotalOver(ids, amounts) ==
    IF ids = {} THEN 0
    ELSE LET c == CHOOSE x \in ids : TRUE
         IN  amounts[c] + TotalOver(ids \ {c}, amounts)

\* The canvas shows the amounts of the imported node list.
CanvasShowsImport == page = "canvas" /\ hasInitialized /\ rendered

\* C4.  Root identity: whatever the rules of the other nodes, the template
\* resolvers (editor, diagram, import) give the root exactly developerPayout,
\* and the free-form resolver gives the imported root node exactly the
\* developerPayout of the imported flow.
C4_RootIdentity ==
    /\ developerPayout >= 0
    /\ treeNodeAmounts[rootNodeId] = developerPayout
    /\ IsDefined(stored) =>
         /\ diagramNodeAmounts(Get(stored))[rootNodeId] = Get(stored).developerPayout
         /\ calculatedAmounts(Get(stored))[rootNodeId] = Get(stored).developerPayout
    /\ CanvasShowsImport =>
         /\ nodes[1].id = rootNodeId
         /\ nodes[1].fixedValue = Some(Get(stored).developerPayout)
         /\ nodeAmounts[rootNodeId] = Get(stored).developerPayout

\* A flow with a payout of 1000.005 and an edited group rule was saved,
\* imported and resolved by the canvas.
C4_Witness ==
    /\ CanvasShowsImport
    /\ Get(stored).developerPayout = Dollars(1000) + 1
    /\ Get(stored).nodeValues["taggerCombined"].percent # 0
    /\ Len(nodes) > 1
    /\ nodeAmounts[rootNodeId] = Dollars(1000) + 1

\* C10.  Group aggregation: for every node of kind "group", getDisplayAmount
\* (of the editor and of the diagram) is the sum of the resolved amounts of
\* the nodes whose parent it is, whatever percent and fixed the group holds.
C10_GroupAggregation ==
    \A g \in DOMAIN payoutNodes :
        payoutNodes[g].kind = Some("group") =>
            /\ getDisplayAmount(treeNodeAmounts, developerPayout, g)
                 = TotalOver(ChildrenOf(g), treeNodeAmounts)
            /\ IsDefined(stored) =>
                 diagramDisplayAmount(diagramNodeAmounts(Get(stored)),
                                      Get(stored).developerPayout,
                                      Get(stored).dynamicChildren, g)
                   = TotalOver(ChildrenOf(g), diagramNodeAmounts(Get(stored)))

\* The group holds a percent and a fixed value of its own, its own amount is
\* not the sum of its children, and a saved flow holds the same.
C10_Witness ==
    /\ developerPayout > 0
    /\ nodeValues["taggerCombined"].percent # 0
    /\ nodeValues["taggerCombined"].fixed # 0
    /\ treeNodeAmounts["taggerFee"] > 0
    /\ treeNodeAmounts["taggerIncentive"] > 0
    /\ getDisplayAmount(treeNodeAmounts, developerPayout, "taggerCombined")
         # treeNodeAmounts["taggerCombined"]
    /\ IsDefined(stored)
    /\ Get(stored).nodeValues["taggerCombined"].fixed # 0

\* The nearest ancestor of a template node that is not a group node.
RECURSIVE NonGroupAncestor(_)
NonGroupAncestor(nodeId) ==
    IF ParentOf(nodeId) = Null \/ ~IsGroup(ParentOf(nodeId)) THEN ParentOf(nodeId)
    ELSE NonGroupAncestor(ParentOf(nodeId))

\* C11.  Every node whose parent is a group node (taggerFee and
\* taggerIncentive under taggerCombined) resolves to
\* round2(base * percent + fixed) where base is the resolved amount of its
\* nearest non-group ancestor, not the group's own computed amount, whatever
\* the rule values are.
C11_GroupChildBase ==
    \A g \in DOMAIN payoutNodes :
        IsGroup(g) =>
            \A c \in ChildrenOf(g) :
                treeNodeAmounts[c]
                  = RoundCents(treeNodeAmounts[NonGroupAncestor(c)],
                               ValueOf(nodeValues, c).percent,
                               ValueOf(nodeValues, c).fixed)

(***************************************************************************)
(* Properties of the dynamic expansion                                     *)
(***************************************************************************)

\* round2(amount / count), in grid steps: the nearest whole cent, a half
\* rounding up.
RoundShare(amount, count) ==
    ((2 * amount + count * CentSteps) \div (2 * count * CentSteps)) * CentSteps

\* The step is an expansion of the pending node with a count of N > 0.
Expands(N) == N > 0 /\ handleSubmitProjectLeadsModal(Num(N))

\* The ids <nodeId>_lead_1 .. <nodeId>_lead_N, written out.
LeadIdsOf(nodeId, N) == [i \in 1..N |-> nodeId \o "_lead_" \o ToString(i)]

\* nodeAmounts as the editor computes it after the step.
AmountsAfter == TemplateAmounts(developerPayout', nodeValues', dynamicChildren', TRUE)

\* C12.  An expansion with count N > 0 creates exactly the child ids
\* <node>_lead_1 .. <node>_lead_N, each with percent = 0 and
\* fixed = round2(A / N), where A is the amount the expandable node resolves
\* to in the amount map at the time of the expansion; each leaf then resolves
\* to that fixed value.
C12_ExpansionShares ==
    [][\A N \in 1..MaxLeads :
          Expands(N) =>
              LET node  == pendingProjectLeadsNode
                  A     == treeNodeAmounts[node]
                  share == RoundShare(A, N)
              IN  /\ dynamicChildren'[node] = LeadIdsOf(node, N)
                  /\ \A i \in 1..N :
                        /\ nodeValues'[LeadIdsOf(node, N)[i]]
                             = [percent |-> 0, fixed |-> share]
                        /\ AmountsAfter[LeadIdsOf(node, N)[i]] = share]_vars

\* The leaf ids of a node beyond its first N.
LeavesBeyond(nodeId, N) ==
    {id \in DOMAIN nodeValues \cup DOMAIN treeNodeAmounts :
        /\ StartsWith(id, nodeId \o "_lead_")
        /\ \A i \in 1..N : id # LeadIdsOf(nodeId, N)[i]}

ChangesAbove(nodeId) ==
    /\ \/ developerPayout' # developerPayout
       \/ \E a \in ChainFrom(nodeId) : ValueOf(nodeValues', a) # ValueOf(nodeValues, a)
    /\ \A N \in 1..MaxLeads : ~Expands(N)

\* C14.  The leaf shares are a snapshot: a step that changes developerPayout
\* or the percent/fixed values of the expandable node or of its ancestors,
\* and is not an expansion, leaves the fixed value and the resolved amount of
\* every generated leaf unchanged.
C14_LeafSnapshot ==
    [][\A node \in DOMAIN dynamicChildren :
          ChangesAbove(node) =>
              \A i \in 1..Len(dynamicChildren[node]) :
                  LET leaf == dynamicChildren[node][i]
                  IN  /\ dynamicChildren'[node] = dynamicChildren[node]
                      /\ nodeValues'[leaf] = nodeValues[leaf]
                      /\ AmountsAfter[leaf] = treeNodeAmounts[leaf]]_vars

\* Leaves of a non-zero share exist, and since the expansion the payout has
\* changed (an expansion now would seed another share) and the expandable
\* node holds an edited fixed value.
C14_Witness ==
    /\ "projectLeads" \in DOMAIN dynamicChildren
    /\ pendingProjectLeadsNode = Null
    /\ LET leaf == dynamicChildren["projectLeads"][1]
       IN  /\ nodeValues[leaf].fixed > 0
           /\ treeNodeAmounts[leaf] = nodeValues[leaf].fixed
           /\ nodeValues[leaf].fixed
                # sharePerLead("projectLeads", projectLeadsTotal["projectLeads"])
    /\ nodeValues["projectLeads"].fixed # 0
    /\ treeNodeAmounts["projectLeads"] > 0

\* The texts of a count that is not a number, negative or 0.
RejectedCounts == {NaN, Num(0 - 1), Num(0)}

\* C15.  Submitting the total leads dialog with a count that is 0, negative
\* or not a number changes none of projectLeadsTotal, dynamicChildren,
\* nodeValues and activeNodeId.
C15_BadCountRejected ==
    [][\A text \in RejectedCounts :
          handleSubmitProjectLeadsModal(text)
              => UNCHANGED <<projectLeadsTotal, dynamicChildren, nodeValues,
                             activeNodeId>>]_vars

\* The dialog is open over a node that holds two leaves of a non-zero share:
\* the state a rejected count is submitted in and leaves as it is.
C15_Witness ==
    /\ pendingProjectLeadsNode = "projectLeads"
    /\ ENABLED handleSubmitProjectLeadsModal(NaN)
    /\ projectLeadsTotal = [x \in {"projectLeads"} |-> 2]
    /\ Len(dynamicChildren["projectLeads"]) = 2
    /\ nodeValues["projectLeads_lead_2"].fixed > 0
    /\ activeNodeId = "newLaunchTeam"

(***************************************************************************)
(* Properties of the canvas under editing                                  *)
(***************************************************************************)

\* The fixed values a node holds: its list, or its single legacy value.
OwnFixed(node) ==
    IF IsDefined(node.fixedValues) THEN Total(Get(node.fixedValues))
    ELSE IF IsDefined(node.fixedValue) THEN Get(node.fixedValue)
    ELSE 0

\* C16.  Detached-root rule: a node with parentId = null that is not the
\* canonical root resolves to the sum of its own fixed values when useFixed
\* is set and to 0 when it is not; this holds in particular right after the
\* node's inbound connection was deleted.
C16_DetachedRoot ==
    rendered =>
        \A i \in Indices :
            (nodes[i].parentId = Null /\ nodes[i].id # rootNodeId)
            => Resolved(nodes[i].id)
                 = IF nodes[i].useFixed THEN OwnFixed(nodes[i]) ELSE 0

\* The connections that end at a box.
InboundOf(conns, nodeId) == SelectSeq(conns, LAMBDA c : c.to = nodeId)

\* After the step, `to` has parent `from` and from -> to is its only
\* inbound connection.
SingleInbound(from, to) ==
    /\ Find(nodes', to).parentId = from
    /\ InboundOf(connections', to) = <<Connection(from, to)>>

\* The Connect gesture from -> to: a click on `to` while connecting from `from`.
ConnectGesture(from, to) ==
    /\ isConnecting /\ connectionStart = from /\ from # to
    /\ handleNodeClick(to)

\* Save of the dialog with a parent chosen, for the box `to`.
ConnectInDialog(from, to) ==
    /\ to = (IF editingNodeId # Null THEN editingNodeId ELSE NewNodeId(now + 1))
    /\ \E form \in DialogForms : form.parentId = from /\ handleSaveNode(form)

\* C19: after connecting from -> to, by the Connect gesture or by choosing
\* a parent in the dialog, to.parentId = from and the connection list holds
\* exactly one connection into `to`, which is from -> to.
C19_ConnectSingleInbound ==
    [][\A from, to \in EditIds :
          (ConnectGesture(from, to) \/ ConnectInDialog(from, to))
          => SingleInbound(from, to)]_vars

\* The pairs (n.parentId, n.id) over the boxes that have a parent.
ParentPairs ==
    {<<nodes[i].parentId, nodes[i].id>> : i \in {j \in Indices : nodes[j].parentId # Null}}

\* The pairs (c.from, c.to) over the connections.
EdgePairs == {<<connections[i].from, connections[i].to>> : i \in 1..Len(connections)}

\* C20: in every state reached by adding, editing, connecting, deleting a
\* connection, deleting a box and duplicating a box, the parent pointers of
\* the boxes and the connection list give the same set of pairs.
C20_ParentsMatchEdges == ParentPairs = EdgePairs

\* The boxes of the list whose parent is nodeId.
BoxesUnder(nodeList, nodeId) ==
    {nodeList[i].id : i \in {j \in 1..Len(nodeList) : nodeList[j].parentId = nodeId}}

\* C21: deleting a box removes the box and every connection that touches
\* it, keeps all of its children in the list, and leaves every former child
\* with parentId null.
C21_DeleteClearsChildren ==
    [][\A nodeId \in EditIds :
          handleDeleteNode(nodeId)
          => /\ nodeId \notin IdsOf(nodes')
             /\ \A i \in 1..Len(connections') :
                    connections'[i].from # nodeId /\ connections'[i].to # nodeId
             /\ BoxesUnder(nodes, nodeId) \subseteq IdsOf(nodes')
             /\ \A c \in BoxesUnder(nodes, nodeId) : Find(nodes', c).parentId = Null]_vars

\* C22: starting from a forest, connects and parent choices in the dialog
\* keep the parent graph a forest: no box is its own ancestor.
C22_StaysForest ==
    \A i \in Indices : nodes[i].id \notin Ancestors(nodes, nodes[i].id)

\* A click on the box the connection was started from.
SelfConnect(nodeId) ==
    /\ isConnecting /\ connectionStart = nodeId
    /\ handleNodeClick(nodeId)

\* C23: after any sequence of Connect gestures and dialog saves no box is
\* its own parent, and a connect whose start and target are the same box
\* changes neither the boxes nor the connections.
C23_NeverOwnParent ==
    /\ [](\A i \in Indices : nodes[i].parentId # nodes[i].id)
    /\ [][\A nodeId \in EditIds : SelfConnect(nodeId) => UNCHANGED <<nodes, connections>>]_vars

\* A connect was started from a box that has a parent, and a click on that
\* same box is possible.
C23_Witness ==
    /\ isConnecting
    /\ \E i \in Indices :
          /\ connectionStart = nodes[i].id
          /\ nodes[i].parentId # Null
          /\ ENABLED handleNodeClick(nodes[i].id)

\* The rule fields of a box.
RuleFields(node) ==
    <<node.amountType, node.amountValue, node.usePercent, node.useFixed,
      node.percentValues, node.fixedValues, node.percentValue, node.fixedValue,
      node.formula>>

\* C24: duplicating a box appends exactly one box that copies every rule
\* field of the original, has parentId null and an id that no box of the
\* list had; no connection is added and the boxes and connections that were
\* there are unchanged.
C24_DuplicateIsFreshCopy ==
    [][\A nodeId \in EditIds :
          handleDuplicateNode(nodeId)
          => /\ Len(nodes') = Len(nodes) + 1
             /\ SubSeq(nodes', 1, Len(nodes)) = nodes
             /\ RuleFields(nodes'[Len(nodes')]) = RuleFields(Find(nodes, nodeId))
             /\ nodes'[Len(nodes')].parentId = Null
             /\ nodes'[Len(nodes')].id \notin IdsOf(nodes)
             /\ connections' = connections]_vars

(***************************************************************************)
(* Properties of dragging in the editor                                    *)
(***************************************************************************)

\* The elements of a list.
Elements(list) == {list[i] : i \in 1..Len(list)}

\* Two lists hold the same cards, each once.
PermutationOf(a, b) ==
    /\ Len(a) = Len(b)
    /\ Elements(a) = Elements(b)
    /\ Cardinality(Elements(a)) = Len(a)

\* C25: a step that reorders the cards of a parent changes only that
\* parent's child order: developerPayout, nodeValues and dynamicChildren
\* stay, so every resolved and every displayed amount stays, and the new
\* order is a permutation of the old one.
C25_ReorderOnlyReorders ==
    [][childOrders' # childOrders
       => /\ UNCHANGED <<developerPayout, nodeValues, dynamicChildren>>
          /\ LET before == treeNodeAmounts
                 after  == AmountsAfter
             IN  /\ after = before
                 /\ \A nodeId \in DOMAIN payoutNodes :
                        getDisplayAmount(after, developerPayout', nodeId)
                          = getDisplayAmount(before, developerPayout, nodeId)
          /\ DOMAIN childOrders' = DOMAIN childOrders
          /\ \A parentId \in DOMAIN childOrders \ {activeNodeId} :
                 childOrders'[parentId] = childOrders[parentId]
          /\ PermutationOf(childOrders'[activeNodeId], childOrders[activeNodeId])]_vars

\* The three cards of the root were reordered so that the first is last,
\* with a payout entered and a card's values edited.
C25_Witness ==
    /\ childOrders[rootNodeId] = <<"taggerCombined", "eraAgency", "directIcb">>
    /\ developerPayout > 0
    /\ nodeValues # buildInitialValues
    /\ treeNodeAmounts["eraAgency"] > 0


(***************************************************************************)
(* Properties of the flowchart service                                     *)
(***************************************************************************)

\* The positions of the rows whose deleted_at is set, and their ids.
DeletedRows == {i \in 1..Len(flowcharts) : flowcharts[i].deleted_at # Null}
DeletedIds == {flowcharts[i].id : i \in DeletedRows}

\* The messages of the errors the service throws when it finds no row.
NotFound == {"Flowchart not found", "Flowchart not found or unauthorized",
             "Source flowchart not found"}

\* C26: once deleteFlowchart(id, owner) has succeeded the row stays in the
\* table, unchanged and with deleted_at set; getFlowchartById returns null for
\* it whoever asks, listFlowcharts lists it under no filter, and
\* updateFlowchart, another deleteFlowchart and duplicateFlowchart called on
\* its id throw a not-found error and change no row (a duplicateFlowchart on it
\* reads no source, so that no copy follows).
C26_SoftDelete ==
    /\ [](/\ \A i \in DeletedRows :
                /\ \A userId \in Users \cup {Null} :
                       getFlowchartById(flowcharts[i].id, userId) = Undefined
                /\ \A filters \in ListFilters :
                       flowcharts[i] \notin Elements(listFlowcharts(filters))
          /\ \A id \in RowIds, userId \in Users :
                deleteOutcome(id, userId).result.status = "ok"
                    => \E i \in 1..Len(flowcharts) :
                           /\ flowcharts[i].id = id
                           /\ deleteOutcome(id, userId).flowcharts[i]
                                = [flowcharts[i] EXCEPT !.deleted_at = Deleted]
          /\ \A id \in DeletedIds, userId \in Users :
                /\ \A input \in UpdateInputs :
                       /\ updateOutcome(id, userId, input).result.status \in NotFound
                       /\ updateOutcome(id, userId, input).flowcharts = flowcharts
                /\ deleteOutcome(id, userId).result.status \in NotFound
                /\ deleteOutcome(id, userId).flowcharts = flowcharts
                /\ duplicateSource(id, userId) = Undefined)
    /\ [][\A i \in DeletedRows :
              i <= Len(flowcharts') /\ flowcharts'[i] = flowcharts[i]]_vars

\* Every row there can be exists and is deleted, and the last call was a
\* duplicateFlowchart that found no source: it was made on a deleted row.
C26_Witness ==
    /\ Len(flowcharts) = MaxRows
    /\ DeletedRows = 1..MaxRows
    /\ result.status = "Source flowchart not found"


\* C27: a row starts at version 1, whether createFlowchart or
\* duplicateFlowchart inserts it; an updateFlowchart by the owner that succeeds
\* raises version by exactly 1 when it carries data and leaves it when it
\* carries none; an updateFlowchart by any other user fails and leaves every
\* row, version included, as it was; so version is always 1 + the number of
\* updates that stored data.
C27_VersionCounter ==
    /\ [](/\ \A i \in 1..Len(flowcharts) :
                flowcharts[i].version = VersionDefault + dataUpdates[i]
          /\ \A i \in 1..Len(flowcharts), userId \in Users, input \in UpdateInputs :
                LET row == flowcharts[i]
                    outcome == updateOutcome(row.id, userId, input)
                IN  IF userId = row.user_id
                    THEN outcome.result.status = "ok"
                            => outcome.flowcharts[i].version
                                 = IF input.data # Undefined THEN row.version + 1
                                   ELSE row.version
                    ELSE /\ outcome.result.status # "ok"
                         /\ outcome.flowcharts = flowcharts)
    /\ [][\A i \in 1..Len(flowcharts') :
              i > Len(flowcharts) => flowcharts'[i].version = 1]_vars


(***************************************************************************)
(* Properties of saving from the canvas                                    *)
(***************************************************************************)

\* C28: isSaving is true whenever a request of useFlowchartSave has not
\* settled yet, however many there are, and false when none is left.
C28_SavingWhileInFlight == isSaving <=> requests # <<>>


(***************************************************************************)
(* Properties of the canvas resolver across list orders and engines        *)
(***************************************************************************)

\* Every order in which the nodes of a list can be listed.
Orders(nodeList) ==
    { [i \in 1..Len(nodeList) |-> nodeList[order[i]]] :
        order \in Permutations(1..Len(nodeList)) }

\* C29: calculateNodeAmounts gives every node the same amount in whatever
\* order the list holds the nodes, parent cycles included.
C29_OrderIndependent ==
    rendered => \A nodeList \in Orders(nodes) : calculateNodeAmounts(nodeList) = nodeAmounts


\* C30: once the canvas has imported a saved flow and resolved it, every
\* imported node, the two tagger groups, their descendants and the dynamic
\* leaves included, has in calculateNodeAmounts the amount the template
\* resolver computed for it as calculatedAmount.
C30_EnginesAgree ==
    (CanvasShowsImport /\ nodes # <<>>) =>
        \A i \in 1..Len(nodes) :
            /\ nodes[i].id \in DOMAIN calculatedAmounts(Get(stored))
            /\ nodes[i].id \in DOMAIN nodeAmounts
            /\ nodeAmounts[nodes[i].id] = calculatedAmounts(Get(stored))[nodes[i].id]

====
